---- MODULE Spec2Model ----
(***************************************************************************)
(* Model of the ego-rs memory pipeline of latent-journey:                   *)
(*   - the relevance selector      (memory.rs, select_relevant_memories)   *)
(*   - the grouping engine         (consolidation.rs, group_related_...)   *)
(*   - the consolidation gate and request state machine                    *)
(*                                 (consolidation.rs, consolidate_thoughts)*)
(* Each component is a function of a memory list; a specification builds   *)
(* the list one memory at a time and then applies the component to it.     *)
(***************************************************************************)
EXTENDS Integers, Sequences, FiniteSets, TLC

VARIABLES
    memories,         \* the memory list handed to the component under check
    palette,          \* the memory templates this run builds its list from
    pc,               \* "input" while the list is built, then the call's state
    focus_embedding,  \* select_relevant_memories: Option<&[f32]>
    max_count,        \* select_relevant_memories: max_count
    result,           \* select_relevant_memories: the returned Vec
    groups,           \* group_related_thoughts: the returned Vec<Vec<&Memory>>
    gate,             \* should_consolidate: the returned bool
    request,          \* consolidate_thoughts: the ConsolidationRequest
    cursor,           \* consolidate_thoughts: the next group of the for loop
    experiences_created,    \* consolidate_thoughts: counter of the loop
    thoughts_consolidated,  \* consolidate_thoughts: counter of the loop
    all_themes,             \* consolidate_thoughts: themes gathered by the loop
    store,            \* MemoryStore: the memories, in the map's iteration order
    experiences,      \* MemoryStore: the experiences, in the order they were added
    responses,        \* consolidate_stm_to_ltm: the results answered so far
    user_query,       \* reflect: ReflectionRequest::user_query
    backend,          \* reflect: what the generative backend does for the request
    ego_thoughts,     \* the EgoThoughts produced so far
    reply,            \* reflect: how the request ended
    tasks,            \* the service: each running task's position and locals
    lock,             \* the service: holders of the RwLock<MemoryStore>
    cosine,           \* cosine_similarity: the two vectors and the returned f32
    stm_file,         \* the lines of the memory file (JSON Lines)
    loaded,           \* load_from_jsonl: the memories of the store it filled
    listed            \* get_ltm_experiences: the list it answered

selectVars == <<focus_embedding, max_count, result>>
requestVars ==
    <<request, cursor, experiences_created, thoughts_consolidated, all_themes>>
handlerVars == <<store, experiences, responses>>
reflectVars == <<user_query, backend, ego_thoughts, reply>>
serverVars == <<tasks, lock>>
callVars == <<cosine, stm_file, loaded, listed>>
restVars == <<serverVars, callVars>>
vars ==
    <<memories, palette, pc, selectVars, groups, gate, requestVars,
      handlerVars, reflectVars, restVars>>

(***************************************************************************)
(* Bounds of the model.                                                    *)
(***************************************************************************)
MaxSelectLen == 9      \* longest list handed to the selector (two templates)
MaxMixedLen == 3       \* longest selector list drawn from all the templates
MaxGroupLen == 4       \* longest list handed to the grouping engine
MaxGateLen == 4        \* longest list handed to the consolidation gate
MaxRequestLen == 4     \* longest list handed to a consolidation request
MaxStoreLen == 4       \* most memories in the store of the consolidation handler
MaxFallbackLen == 6    \* longest list handed to generate_fallback_thought

(***************************************************************************)
(* types.rs: Memory, Modality.  A timestamp is a count of milliseconds     *)
(* since the epoch (chrono keeps sub-second precision); an embedding is a  *)
(* sequence of small integers; an id is the position of the memory in the  *)
(* list (ids are unique in the store, a HashMap keyed by id).              *)
(***************************************************************************)
Modality == {"Vision", "Speech", "Text", "Concept"}

\* The memory_consolidation_need facet of a memory: absent, a JSON value
\* that is no number (as_f64 gives None), or a number, given in tenths.
NoFacet == [kind |-> "absent", tenths |-> 0]
StringFacet == [kind |-> "string", tenths |-> 0]
NumberFacet(t) == [kind |-> "number", tenths |-> t]

Memory(id, modality, timestamp, embedding, content, facet) ==
    [id |-> id, modality |-> modality, timestamp |-> timestamp,
     embedding |-> embedding, content |-> content, need |-> facet]

\* A template is a memory without its id.
FromTemplate(id, k) ==
    Memory(id, k.modality, k.timestamp, k.embedding, k.content, k.need)

(***************************************************************************)
(* Small helpers.                                                          *)
(***************************************************************************)
Min(S) == CHOOSE x \in S : \A y \in S : x <= y
Take(s, n) == SubSeq(s, 1, IF n < Len(s) THEN n ELSE Len(s))
Abs(x) == IF x < 0 THEN -x ELSE x

\* a.iter().zip(b.iter()).map(|(x, y)| x * y).sum() over the first n places
RECURSIVE DotTo(_, _, _)
DotTo(a, b, n) == IF n = 0 THEN 0 ELSE a[n] * b[n] + DotTo(a, b, n - 1)

(***************************************************************************)
(* memory.rs: cosine_similarity.  The f32 result dot / (|a| * |b|) is      *)
(* represented exactly by its signed square sign(dot) * dot^2 / (|a|^2 *   *)
(* |b|^2), a fraction num/den with den > 0: the map x |-> sign(x) * x^2 is *)
(* strictly increasing, so the order of two results is the order of their  *)
(* representations.  0.0 is num = 0, den = 1.                              *)
(***************************************************************************)
Score(num, den) == [num |-> num, den |-> den]
ScoreZero == Score(0, 1)

\* The same without the test of the norms: 0/0 shows as a zero denominator.
cosine_similarity_unguarded(a, b) ==
    IF Len(a) # Len(b)
    THEN ScoreZero
    ELSE LET dot_product == DotTo(a, b, Len(a))
         IN  Score((IF dot_product < 0 THEN -1 ELSE 1)
                       * dot_product * dot_product,
                   DotTo(a, a, Len(a)) * DotTo(b, b, Len(b)))

cosine_similarity(a, b) ==
    IF Len(a) # Len(b)
    THEN ScoreZero
    ELSE LET dot_product == DotTo(a, b, Len(a))
             norm_a2 == DotTo(a, a, Len(a))
             norm_b2 == DotTo(b, b, Len(b))
         IN  IF norm_a2 = 0 \/ norm_b2 = 0
             THEN ScoreZero
             ELSE IF dot_product = 0
                  THEN ScoreZero
                  ELSE Score((IF dot_product < 0 THEN -1 ELSE 1)
                                 * dot_product * dot_product,
                             norm_a2 * norm_b2)

\* partial_cmp on two scores: x > y.
ScoreGreater(x, y) == x.num * y.den > y.num * x.den

(***************************************************************************)
(* memory.rs: select_relevant_memories.                                    *)
(***************************************************************************)
NoFocus == [some |-> FALSE, v |-> <<>>]
SomeFocus(v) == [some |-> TRUE, v |-> v]

\* The two comparators handed to sort_by order the memories by a key,
\* greatest first: the similarity of the embedding to the focus, or the
\* timestamp (a whole number, written as a fraction over 1).
rank_key(m, focus) ==
    IF focus.some
    THEN cosine_similarity(m.embedding, focus.v)
    ELSE Score(m.timestamp, 1)

RECURSIVE RankKeys(_, _, _)
RankKeys(s, n, focus) ==
    IF n = 0 THEN <<>>
    ELSE Append(RankKeys(s, n - 1, focus), rank_key(s[n], focus))

\* slice::sort_by is a stable sort: equal elements keep their order.  The
\* sort is carried out on the positions 1..Len(s), keys[i] the key of s[i]:
\* position x goes before the first sorted position whose key is smaller.
InsertSorted(x, sorted, keys) ==
    LET later == {i \in 1..Len(sorted) : ScoreGreater(keys[x], keys[sorted[i]])}
        p == IF later = {} THEN Len(sorted) + 1 ELSE Min(later)
    IN  SubSeq(sorted, 1, p - 1) \o <<x>> \o SubSeq(sorted, p, Len(sorted))

RECURSIVE SortPrefix(_, _)
SortPrefix(n, keys) ==
    IF n = 0 THEN <<>>
    ELSE LET sorted == SortPrefix(n - 1, keys)
         IN  InsertSorted(n, sorted, keys)

sort_by(s, focus) ==
    LET keys == RankKeys(s, Len(s), focus)
        order == SortPrefix(Len(s), keys)
    IN  [i \in 1..Len(s) |-> s[order[i]]]

modality_key(m) ==
    CASE m = "Vision"  -> "vision"
      [] m = "Speech"  -> "speech"
      [] m = "Text"    -> "text"
      [] m = "Concept" -> "concept"

limits_concept_uncapped == <<8, 8, 8, 8>>
limits == <<8, 8, 8, 4>>

modalities_speech_first == <<"speech", "vision", "text", "concept">>
modalities == <<"vision", "speech", "text", "concept">>

\* by_modality.get(key): the ranked memories of one modality, in rank order.
by_modality(selected, key) ==
    SelectSeq(selected, LAMBDA m : modality_key(m.modality) = key)

RECURSIVE ExtendHeads(_, _)
ExtendHeads(selected, n) ==
    IF n = 0 THEN <<>>
    ELSE ExtendHeads(selected, n - 1)
             \o Take(by_modality(selected, modalities[n]), limits[n])

truncate(s, n) == Take(s, n)

select_relevant_memories(mems, focus, maxc) ==
    LET selected == sort_by(mems, focus)
    IN  truncate(ExtendHeads(selected, Len(modalities)), maxc)

(***************************************************************************)
(* consolidation.rs: are_thoughts_related.  A content is a sequence of     *)
(* one-character strings.                                                  *)
(***************************************************************************)
\* DateTime::timestamp(): the whole seconds since the epoch.
timestamp(t) == t \div 1000

to_lowercase_char(c) ==
    CASE c = "A" -> "a" [] c = "B" -> "b" [] c = "C" -> "c" [] c = "D" -> "d"
      [] OTHER -> c

to_lowercase(content) ==
    [i \in 1..Len(content) |-> to_lowercase_char(content[i])]

is_whitespace(c) == c \in {" ", "\t", "\n"}

\* content.split_whitespace().collect::<HashSet<&str>>(): the set of the
\* maximal runs of non-whitespace characters.  word is the run read so far.
RECURSIVE SplitFrom(_, _, _)
SplitFrom(content, i, word) ==
    IF i > Len(content)
    THEN IF word = <<>> THEN {} ELSE {word}
    ELSE IF is_whitespace(content[i])
         THEN (IF word = <<>> THEN {} ELSE {word})
                  \cup SplitFrom(content, i + 1, <<>>)
         ELSE SplitFrom(content, i + 1, Append(word, content[i]))

split_whitespace(content) == SplitFrom(content, 1, <<>>)

\* intersection as f32 / union as f32: an exact fraction, or NaN for 0/0
\* (the word counts are far below 2^24, so both casts are exact).
f32_ratio(n, d) == [nan |-> (d = 0 /\ n = 0), num |-> n, den |-> d]

\* similarity > 0.3 on f32: false for NaN.  For n <= d < 2^20 the rounded
\* quotient exceeds the f32 nearest 0.3 exactly when n/d > 3/10.
similarity_ge_threshold(sim) == ~sim.nan /\ 10 * sim.num >= 3 * sim.den
similarity_gt_threshold(sim) == ~sim.nan /\ 10 * sim.num > 3 * sim.den

time_diff_within_two_hours(time_diff) == ~(time_diff > 7200)
time_diff_within(time_diff) == ~(time_diff > 3600)

are_thoughts_related(thought1, thought2) ==
    LET time_diff == Abs(timestamp(thought1.timestamp)
                             - timestamp(thought2.timestamp))
    IN  IF ~time_diff_within(time_diff)
        THEN FALSE
        ELSE LET words1 == split_whitespace(to_lowercase(thought1.content))
                 words2 == split_whitespace(to_lowercase(thought2.content))
                 intersection == Cardinality(words1 \cap words2)
                 union == Cardinality(words1 \cup words2)
                 similarity == f32_ratio(intersection, union)
             IN  similarity_gt_threshold(similarity)

(***************************************************************************)
(* consolidation.rs: group_related_thoughts.  A group is the sequence of   *)
(* its members; used is used_indices.                                      *)
(***************************************************************************)
\* A chained inner loop: each member found becomes the memory the next ones
\* are compared with.
RECURSIVE InnerLoopChained(_, _, _, _)
InnerLoopChained(mems, i, j, used) ==
    IF j > Len(mems)
    THEN [group |-> <<>>, used |-> used]
    ELSE IF j \in used \/ i = j
         THEN InnerLoopChained(mems, i, j + 1, used)
         ELSE IF are_thoughts_related(mems[i], mems[j])
              THEN LET rest == InnerLoopChained(mems, j, j + 1, used \cup {j})
                   IN  [group |-> <<mems[j]>> \o rest.group, used |-> rest.used]
              ELSE InnerLoopChained(mems, i, j + 1, used)

\* The inner loop from j on: the members pushed after the seed i.
RECURSIVE InnerLoop(_, _, _, _)
InnerLoop(mems, i, j, used) ==
    IF j > Len(mems)
    THEN [group |-> <<>>, used |-> used]
    ELSE IF j \in used \/ i = j
         THEN InnerLoop(mems, i, j + 1, used)
         ELSE IF are_thoughts_related(mems[i], mems[j])
              THEN LET rest == InnerLoop(mems, i, j + 1, used \cup {j})
                   IN  [group |-> <<mems[j]>> \o rest.group, used |-> rest.used]
              ELSE InnerLoop(mems, i, j + 1, used)

keep_group_any(group) == Len(group) >= 1
keep_group(group) == Len(group) >= 2

\* An outer loop that puts each new group in front of the earlier ones.
RECURSIVE OuterLoopNewestFirst(_, _, _)
OuterLoopNewestFirst(mems, i, used) ==
    IF i > Len(mems)
    THEN <<>>
    ELSE IF i \in used
         THEN OuterLoopNewestFirst(mems, i + 1, used)
         ELSE LET inner == InnerLoop(mems, i, 1, used \cup {i})
                  group == <<mems[i]>> \o inner.group
                  rest == OuterLoopNewestFirst(mems, i + 1, inner.used)
              IN  IF keep_group(group) THEN rest \o <<group>> ELSE rest

\* The outer loop from i on.
RECURSIVE OuterLoop(_, _, _)
OuterLoop(mems, i, used) ==
    IF i > Len(mems)
    THEN <<>>
    ELSE IF i \in used
         THEN OuterLoop(mems, i + 1, used)
         ELSE LET inner == InnerLoop(mems, i, 1, used \cup {i})
                  group == <<mems[i]>> \o inner.group
                  rest == OuterLoop(mems, i + 1, inner.used)
              IN  IF keep_group(group) THEN <<group>> \o rest ELSE rest

group_related_thoughts(mems) == OuterLoop(mems, 1, {})

(***************************************************************************)
(* f32 arithmetic of should_consolidate.  A non-negative f32 is the whole   *)
(* number of units of 2^-27 it holds (0.1, the smallest facet value, has    *)
(* 24 significant bits down to 2^-27).  Every operation rounds its exact    *)
(* result to 24 significant bits, ties to even, as IEEE 754 does.  Results  *)
(* below 2^-3 are rounded to the unit instead, which is coarser than f32    *)
(* but far from the threshold they are compared with.                      *)
(***************************************************************************)
\* The spacing of the f32 values around x units: 2^(e-23) for 2^e <= x.
RECURSIVE F32Spacing(_, _)
F32Spacing(x, p) == IF x < p * 2^24 THEN p ELSE F32Spacing(x, 2 * p)

\* num / den units, rounded to the nearest f32, ties to even.
F32Round(num, den) ==
    LET p == F32Spacing(num \div den, 1)
        d == den * p
        q == num \div d
        r == num % d
    IN  IF 2 * r > d \/ (2 * r = d /\ q % 2 = 1) THEN (q + 1) * p ELSE q * p

\* v.as_f64() as f32, for the JSON number t/10.
f32_from_tenths(t) == F32Round(t * 2^27, 10)
f32_add(a, b) == F32Round(a + b, 1)
f32_div(a, n) == F32Round(a, n)

(***************************************************************************)
(* consolidation.rs: should_consolidate.                                   *)
(***************************************************************************)
min_thoughts_for_consolidation == 3
consolidation_threshold == f32_from_tenths(6)

\* memories.iter().filter_map(..).sum::<f32>() over the first n memories.
RECURSIVE sum_consolidation_need(_, _)
sum_consolidation_need(mems, n) ==
    IF n = 0 THEN 0
    ELSE LET before == sum_consolidation_need(mems, n - 1)
         IN  IF mems[n].need.kind = "number"
             THEN f32_add(before, f32_from_tenths(mems[n].need.tenths))
             ELSE before

should_consolidate(mems) ==
    IF Len(mems) < min_thoughts_for_consolidation
    THEN FALSE
    ELSE LET avg_consolidation_need ==
                 f32_div(sum_consolidation_need(mems, Len(mems)), Len(mems))
         IN  avg_consolidation_need >= consolidation_threshold

(***************************************************************************)
(* consolidation.rs: consolidate_thoughts.  An Option is a record with a   *)
(* some flag.                                                              *)
(***************************************************************************)
None == [some |-> FALSE, v |-> 0]
Some(v) == [some |-> TRUE, v |-> v]
NoRequest == [force |-> [some |-> FALSE, v |-> FALSE], max_experiences |-> None]

unwrap_or(option, default) == IF option.some THEN option.v ELSE default

\* if !force && !self.should_consolidate(memories) { return ... }
gate_skips_ignoring_force(req, mems) == ~should_consolidate(mems)
gate_skips(req, mems) ==
    ~unwrap_or(req.force, FALSE) /\ ~should_consolidate(mems)

\* No request has reached the handlers yet: the store is empty.
HandlerIdle ==
    /\ store = <<>>
    /\ experiences = <<>>
    /\ responses = <<>>

ReflectIdle ==
    /\ user_query = None
    /\ backend = [failed |-> FALSE, response |-> None]
    /\ ego_thoughts = <<>>
    /\ reply = "none"

\* The list components are at rest while another component is checked.
EngineIdle ==
    /\ memories = <<>>
    /\ focus_embedding = NoFocus
    /\ max_count = 0
    /\ result = <<>>
    /\ groups = <<>>
    /\ gate = FALSE
    /\ request = NoRequest
    /\ cursor = 0
    /\ experiences_created = 0
    /\ thoughts_consolidated = 0
    /\ all_themes = <<>>

\* The variables of the list components.
engineVars == <<memories, selectVars, groups, gate, requestVars>>

\* No task of the service runs and nobody holds the lock of the store.
ServerIdle ==
    /\ tasks = <<>>
    /\ lock = [readers |-> {}, writer |-> {}]

\* No call of cosine_similarity, of the file routines or of
\* get_ltm_experiences has been made.
CallIdle ==
    /\ cosine = <<>>
    /\ stm_file = <<>>
    /\ loaded = <<>>
    /\ listed = <<>>

(***************************************************************************)
(* Specification of the selector: a list of up to MaxSelectLen memories is *)
(* built from the two templates of the run's palette, then selected from.  *)
(***************************************************************************)
SelectVariants ==
    { [timestamp |-> 1000, embedding |-> <<1, 0>>],
      [timestamp |-> 2500, embedding |-> <<1, 1>>] }

SelectTemplates ==
    { [modality |-> m, timestamp |-> v.timestamp, embedding |-> v.embedding,
       content |-> <<>>, need |-> NoFacet] : m \in Modality, v \in SelectVariants }

\* Two templates that differ in timestamp and embedding (so that ranking
\* shows), of one modality or of two; or all the templates, for short lists.
SelectPalettes ==
    { P \in SUBSET SelectTemplates :
        /\ Cardinality(P) = 2
        /\ \A a, b \in P : a # b => a.timestamp # b.timestamp }
    \cup { SelectTemplates }

SelectLenBound(P) == IF P = SelectTemplates THEN MaxMixedLen ELSE MaxSelectLen

FocusChoices == { NoFocus, SomeFocus(<<1, 0>>) }
MaxCountChoices == { 0, 2, 12 }

InitSelect ==
    /\ memories = <<>>
    /\ palette \in SelectPalettes
    /\ pc = "input"
    /\ focus_embedding = NoFocus
    /\ max_count = 0
    /\ result = <<>>
    /\ groups = <<>>
    /\ gate = FALSE
    /\ request = NoRequest
    /\ cursor = 0
    /\ experiences_created = 0
    /\ thoughts_consolidated = 0
    /\ all_themes = <<>>
    /\ HandlerIdle
    /\ ReflectIdle
    /\ ServerIdle
    /\ CallIdle

PushSelectMemory(k) ==
    /\ pc = "input"
    /\ Len(memories) < SelectLenBound(palette)
    /\ memories' = Append(memories, FromTemplate(Len(memories) + 1, k))
    /\ UNCHANGED <<restVars, handlerVars, reflectVars,
                   palette, pc, selectVars, groups, gate, requestVars>>

CallSelect(focus, maxc) ==
    /\ pc = "input"
    /\ focus_embedding' = focus
    /\ max_count' = maxc
    /\ result' = select_relevant_memories(memories, focus, maxc)
    /\ pc' = "selected"
    /\ UNCHANGED <<restVars, handlerVars, reflectVars,
                   memories, palette, groups, gate, requestVars>>

NextSelect ==
    \/ \E k \in palette : PushSelectMemory(k)
    \/ \E focus \in FocusChoices, maxc \in MaxCountChoices : CallSelect(focus, maxc)

SpecSelect == InitSelect /\ [][NextSelect]_vars

(***************************************************************************)
(* Specification of the grouping engine: a list of up to MaxGroupLen       *)
(* memories is built from the three templates of the run's palette, then   *)
(* grouped.  The contents are "", "a  B c\td e f", " A b C g h i j " and    *)
(* "a b c D": their word sets share 3 of 10, 4 of 6 and 3 of 8 words.  The *)
(* timestamps are 0 s, 600 s, 3600.999 s and 7200 s.                       *)
(***************************************************************************)
ContentEmpty == <<>>
ContentSix == <<"a", " ", " ", "B", " ", "c", "\t", "d", " ", "e", " ", "f">>
ContentSeven ==
    <<" ", "A", " ", "b", " ", "C", " ", "g", " ", "h", " ", "i", " ", "j", " ">>
ContentFour == <<"a", " ", "b", " ", "c", " ", "D">>

GroupContents == { ContentEmpty, ContentSix, ContentSeven, ContentFour }
GroupTimestamps == { 0, 600000, 3600999, 7200000 }

GroupTemplates ==
    { [modality |-> "Text", timestamp |-> t, embedding |-> <<>>,
       content |-> c, need |-> NoFacet] :
        t \in GroupTimestamps, c \in GroupContents }

\* Three templates of at most two contents.
GroupPalettes ==
    { P \in SUBSET GroupTemplates :
        /\ Cardinality(P) = 3
        /\ Cardinality({k.content : k \in P}) <= 2 }

InitGroup ==
    /\ memories = <<>>
    /\ palette \in GroupPalettes
    /\ pc = "input"
    /\ focus_embedding = NoFocus
    /\ max_count = 0
    /\ result = <<>>
    /\ groups = <<>>
    /\ gate = FALSE
    /\ request = NoRequest
    /\ cursor = 0
    /\ experiences_created = 0
    /\ thoughts_consolidated = 0
    /\ all_themes = <<>>
    /\ HandlerIdle
    /\ ReflectIdle
    /\ ServerIdle
    /\ CallIdle

PushGroupMemory(k) ==
    /\ pc = "input"
    /\ Len(memories) < MaxGroupLen
    /\ memories' = Append(memories, FromTemplate(Len(memories) + 1, k))
    /\ UNCHANGED <<restVars, handlerVars, reflectVars,
                   palette, pc, selectVars, groups, gate, requestVars>>

CallGroup ==
    /\ pc = "input"
    /\ groups' = group_related_thoughts(memories)
    /\ pc' = "grouped"
    /\ UNCHANGED <<restVars, handlerVars, reflectVars,
                   memories, palette, selectVars, gate, requestVars>>

NextGroup ==
    \/ \E k \in palette : PushGroupMemory(k)
    \/ CallGroup

SpecGroup == InitGroup /\ [][NextGroup]_vars

(***************************************************************************)
(* Specification of the consolidation gate: a list of up to MaxGateLen     *)
(* memories, each with one of the facet values, is built and then handed   *)
(* to should_consolidate.                                                  *)
(***************************************************************************)
GateFacets ==
    { NoFacet, StringFacet } \cup { NumberFacet(t) : t \in {2, 5, 6, 7, 8, 10} }

GateTemplates ==
    { [modality |-> "Text", timestamp |-> 0, embedding |-> <<>>,
       content |-> <<>>, need |-> f] : f \in GateFacets }

InitGate ==
    /\ memories = <<>>
    /\ palette = GateTemplates
    /\ pc = "input"
    /\ focus_embedding = NoFocus
    /\ max_count = 0
    /\ result = <<>>
    /\ groups = <<>>
    /\ gate = FALSE
    /\ request = NoRequest
    /\ cursor = 0
    /\ experiences_created = 0
    /\ thoughts_consolidated = 0
    /\ all_themes = <<>>
    /\ HandlerIdle
    /\ ReflectIdle
    /\ ServerIdle
    /\ CallIdle

PushGateMemory(k) ==
    /\ pc = "input"
    /\ Len(memories) < MaxGateLen
    /\ memories' = Append(memories, FromTemplate(Len(memories) + 1, k))
    /\ UNCHANGED <<restVars, handlerVars, reflectVars,
                   palette, pc, selectVars, groups, gate, requestVars>>

CallGate ==
    /\ pc = "input"
    /\ gate' = should_consolidate(memories)
    /\ pc' = "gated"
    /\ UNCHANGED <<restVars, handlerVars, reflectVars,
                   memories, palette, selectVars, groups, requestVars>>

NextGate ==
    \/ \E k \in palette : PushGateMemory(k)
    \/ CallGate

SpecGate == InitGate /\ [][NextGate]_vars

(***************************************************************************)
(* Specification of a consolidation request: consolidate_thoughts is       *)
(* called on a list of up to MaxRequestLen memories built from the two     *)
(* templates of the run's palette.  pc is the state of the request: Idle   *)
(* on entry, then Skip (the early return) or Process (the loop over the    *)
(* groups), then Done.  The themes of an Experience come from the backend  *)
(* or from the keyword table; they are drawn from ThemeChoices here.       *)
(***************************************************************************)
RequestTemplates ==
    { [modality |-> "Text", timestamp |-> t, embedding |-> <<>>,
       content |-> c, need |-> f] :
        t \in {0, 7200000},
        c \in {ContentSix, ContentFour, ContentSeven},
        f \in {NoFacet, NumberFacet(4), NumberFacet(8)} }

RequestPalettes == { P \in SUBSET RequestTemplates : Cardinality(P) = 2 }

RequestChoices ==
    { [force |-> f, max_experiences |-> m] :
        f \in { [some |-> FALSE, v |-> FALSE], Some(FALSE), Some(TRUE) },
        m \in { None, Some(1) } }

ThemeChoices == { <<>>, <<"research">> }

InitRequest ==
    /\ memories = <<>>
    /\ palette \in RequestPalettes
    /\ pc = "input"
    /\ focus_embedding = NoFocus
    /\ max_count = 0
    /\ result = <<>>
    /\ groups = <<>>
    /\ gate = FALSE
    /\ request = NoRequest
    /\ cursor = 0
    /\ experiences_created = 0
    /\ thoughts_consolidated = 0
    /\ all_themes = <<>>
    /\ HandlerIdle
    /\ ReflectIdle
    /\ ServerIdle
    /\ CallIdle

PushRequestMemory(k) ==
    /\ pc = "input"
    /\ Len(memories) < MaxRequestLen
    /\ memories' = Append(memories, FromTemplate(Len(memories) + 1, k))
    /\ UNCHANGED <<restVars, handlerVars, reflectVars,
                   palette, pc, selectVars, groups, gate, requestVars>>

\* The call of consolidate_thoughts(memories, request).
CallConsolidate(req) ==
    /\ pc = "input"
    /\ request' = req
    /\ pc' = "Idle"
    /\ UNCHANGED <<restVars, handlerVars, reflectVars,
                   memories, palette, selectVars, groups, gate, cursor,
                   experiences_created, thoughts_consolidated, all_themes>>

\* The gate: the early return with the zero result, or the grouping.
GateCheck ==
    /\ pc = "Idle"
    /\ IF gate_skips(request, memories)
       THEN /\ pc' = "Skip"
            /\ UNCHANGED groups
       ELSE /\ pc' = "Process"
            /\ groups' = group_related_thoughts(memories)
    /\ cursor' = 1
    /\ experiences_created' = 0
    /\ thoughts_consolidated' = 0
    /\ all_themes' = <<>>
    /\ UNCHANGED <<restVars, handlerVars, reflectVars,
                   memories, palette, selectVars, gate, request>>

\* A loop over all the groups, without the take(max_experiences).
loop_has_next_uncapped == cursor <= Len(groups)

\* groups.iter().take(max_experiences): whether the loop has a next group.
loop_has_next ==
    /\ cursor <= Len(groups)
    /\ cursor <= unwrap_or(request.max_experiences, 5)

\* One turn of the loop: an Experience is made of the group at the cursor.
ProcessGroup(themes) ==
    /\ pc = "Process"
    /\ loop_has_next
    /\ cursor' = cursor + 1
    /\ IF Len(groups[cursor]) < 2
       THEN UNCHANGED <<restVars,
                        experiences_created, thoughts_consolidated, all_themes>>
       ELSE /\ all_themes' = all_themes \o themes
            /\ experiences_created' = experiences_created + 1
            /\ thoughts_consolidated' =
                   thoughts_consolidated + Len(groups[cursor])
    /\ UNCHANGED <<restVars, handlerVars, reflectVars,
                   memories, palette, pc, selectVars, groups, gate, request>>

\* The loop is over: Ok(ConsolidationResult { .. }).
ReturnResult ==
    /\ pc = "Process"
    /\ ~loop_has_next
    /\ pc' = "Done"
    /\ UNCHANGED <<restVars, handlerVars, reflectVars,
                   memories, palette, selectVars, groups, gate, requestVars>>

NextRequest ==
    \/ \E k \in palette : PushRequestMemory(k)
    \/ \E req \in RequestChoices : CallConsolidate(req)
    \/ GateCheck
    \/ \E themes \in ThemeChoices : ProcessGroup(themes)
    \/ ReturnResult

SpecRequest == InitRequest /\ [][NextRequest]_vars

(***************************************************************************)
(* Claims about the selector.                                              *)
(***************************************************************************)
ResultCount(mod) ==
    Cardinality({i \in 1..Len(result) : result[i].modality = mod})
InputCount(mod) ==
    Cardinality({i \in 1..Len(memories) : memories[i].modality = mod})

\* C1: select_relevant_memories returns at most max_count memories, and among
\* them at most 8 Vision, 8 Speech, 8 Text and 4 Concept memories.
C1_SelectWithinCaps ==
    pc = "selected" =>
        /\ Len(result) <= max_count
        /\ ResultCount("Vision") <= 8
        /\ ResultCount("Speech") <= 8
        /\ ResultCount("Text") <= 8
        /\ ResultCount("Concept") <= 4

\* A selection from more Concept memories than the cap, cut to the cap, and
\* one from more Vision memories than the cap.
C1_Witness ==
    /\ pc = "selected"
    /\ \/ InputCount("Concept") > 4 /\ ResultCount("Concept") = 4
       \/ InputCount("Vision") > 8 /\ ResultCount("Vision") = 8

\* The ranking the claim describes, stated on the positions of the input:
\* position i is ranked ahead of position j when its key is greater, or the
\* keys are equal and i comes first in the input.
ClaimKeys == RankKeys(memories, Len(memories), focus_embedding)
ClaimAhead(i, j, keys) ==
    \/ ScoreGreater(keys[i], keys[j])
    \/ ~ScoreGreater(keys[j], keys[i]) /\ i < j
ClaimCap(mod) == IF mod = "Concept" THEN 4 ELSE 8
ClaimPriority(mod) ==
    CASE mod = "Vision" -> 1 [] mod = "Speech" -> 2
      [] mod = "Text" -> 3 [] mod = "Concept" -> 4
\* The positions in the head of their modality: fewer than cap positions of
\* the same modality are ranked ahead of them.
ClaimHeads(keys) ==
    {i \in 1..Len(memories) :
        Cardinality({j \in 1..Len(memories) :
            /\ memories[j].modality = memories[i].modality
            /\ ClaimAhead(j, i, keys)}) < ClaimCap(memories[i].modality)}
\* Position j comes before position i in the concatenation of the heads.
ClaimBefore(j, i, keys) ==
    \/ ClaimPriority(memories[j].modality) < ClaimPriority(memories[i].modality)
    \/ /\ memories[j].modality = memories[i].modality
       /\ ClaimAhead(j, i, keys)

\* C2: the result is the concatenation, in the order Vision, Speech, Text,
\* Concept, of the first min(cap, n) ranked memories of each modality, cut to
\* max_count; every returned memory is an input memory, none is returned
\* twice, and without a focus the returned memories of one modality are in
\* non-increasing timestamp order.
C2_SelectIsRankedHeads ==
    pc = "selected" =>
        LET keys == ClaimKeys
            heads == ClaimHeads(keys)
            n == IF max_count < Cardinality(heads) THEN max_count
                 ELSE Cardinality(heads)
        IN  /\ Len(result) = n
            /\ \A p \in 1..Len(result) :
                  /\ result[p].id \in heads
                  /\ memories[result[p].id] = result[p]
                  /\ Cardinality({j \in heads :
                         ClaimBefore(j, result[p].id, keys)}) = p - 1
            /\ \A p, q \in 1..Len(result) :
                  p < q => result[p].id # result[q].id
            /\ ~focus_embedding.some =>
                  \A p, q \in 1..Len(result) :
                      (p < q /\ result[p].modality = result[q].modality)
                          => result[p].timestamp >= result[q].timestamp

\* A selection that is cut by max_count, ranks two memories of one modality
\* against their input order, and leaves out an earlier memory of another
\* modality.
C2_Witness ==
    /\ pc = "selected"
    /\ Len(result) = max_count
    /\ Len(memories) > max_count
    /\ \E p, q \in 1..Len(result) :
          /\ p < q
          /\ result[p].id > result[q].id
          /\ result[p].modality = result[q].modality
          /\ \E i \in 1..Len(memories) :
                /\ i < result[q].id
                /\ memories[i].modality # result[q].modality
                /\ \A r \in 1..Len(result) : result[r].id # i

(***************************************************************************)
(* Claims about the grouping engine.                                       *)
(***************************************************************************)
GroupIndex == 1..Len(groups)
Members(g) == {groups[g][k].id : k \in 1..Len(groups[g])}
Seed(g) == groups[g][1]

\* What the claims call the lower-cased, whitespace-tokenized word set.
ClaimWords(m) == split_whitespace(to_lowercase(m.content))
ClaimShared(a, b) == Cardinality(ClaimWords(a) \cap ClaimWords(b))
ClaimDistinct(a, b) == Cardinality(ClaimWords(a) \cup ClaimWords(b))
ClaimSecondsApart(a, b) == Abs(timestamp(a.timestamp) - timestamp(b.timestamp))
ClaimMillisApart(a, b) == Abs(a.timestamp - b.timestamp)

\* C3: every group has at least 2 members, every member is a memory of the
\* input, and no input memory is in two groups or twice in one group.
C3_GroupsDisjointPairs ==
    pc = "grouped" =>
        /\ \A g \in GroupIndex : Len(groups[g]) >= 2
        /\ \A g \in GroupIndex : \A k \in 1..Len(groups[g]) :
              /\ groups[g][k].id \in 1..Len(memories)
              /\ memories[groups[g][k].id] = groups[g][k]
        /\ \A g \in GroupIndex : \A k, l \in 1..Len(groups[g]) :
              k # l => groups[g][k].id # groups[g][l].id
        /\ \A g, h \in GroupIndex : g # h => Members(g) \cap Members(h) = {}

\* Two groups from one input that also holds a memory left in no group
\* would need five memories; two groups of two are reached here.
C3_Witness ==
    /\ pc = "grouped"
    /\ Len(groups) = 2
    /\ Len(memories) = 4

\* C4, as claimed: any two distinct members of one group are related.
C4_MembersMutuallyRelated ==
    pc = "grouped" =>
        \A g \in GroupIndex : \A k, l \in 1..Len(groups[g]) :
            k # l => are_thoughts_related(groups[g][k], groups[g][l])

\* C4, amended: every member of a group other than its first is related to
\* the first member (the seed), so that the whole-second timestamps of two
\* members are at most 7200 s apart; two such members need not be related.
C4_MembersRelatedToSeed ==
    pc = "grouped" =>
        \A g \in GroupIndex :
            /\ \A k \in 2..Len(groups[g]) :
                  are_thoughts_related(Seed(g), groups[g][k])
            /\ \A k, l \in 1..Len(groups[g]) :
                  ClaimSecondsApart(groups[g][k], groups[g][l]) <= 7200

\* A group with two members that are not related to each other.
C4_Witness ==
    /\ pc = "grouped"
    /\ \E g \in GroupIndex : \E k, l \in 2..Len(groups[g]) :
          /\ k # l
          /\ ~are_thoughts_related(groups[g][k], groups[g][l])

\* Two memories of identical content, 2 hours apart.
TwoHoursApart(a, b) ==
    a.content = b.content /\ ClaimMillisApart(a, b) = 7200000

\* C5, as claimed: two memories of identical content whose timestamps are 2
\* hours apart are never in the same group, whatever else the input holds.
C5_TwoHoursNeverTogether ==
    pc = "grouped" =>
        \A g \in GroupIndex : \A k, l \in 1..Len(groups[g]) :
            ~TwoHoursApart(groups[g][k], groups[g][l])

\* C5, amended: two memories of identical content 2 hours apart are not
\* related: neither is in a group whose seed is the other, and given as the
\* only input they yield no group.  (A third memory within an hour of both
\* can seed a group that holds both.)
C5_TwoHoursNotWithSeed ==
    pc = "grouped" =>
        /\ \A g \in GroupIndex : \A k \in 2..Len(groups[g]) :
              ~TwoHoursApart(Seed(g), groups[g][k])
        /\ (Len(memories) = 2 /\ TwoHoursApart(memories[1], memories[2]))
              => groups = <<>>

\* The two memories alone, with words in their content, grouped to nothing.
C5_Witness ==
    /\ pc = "grouped"
    /\ Len(memories) = 2
    /\ TwoHoursApart(memories[1], memories[2])
    /\ ClaimWords(memories[1]) # {}
    /\ groups = <<>>

\* C6: two memories of identical content (any content, also empty) whose
\* timestamps are 10 minutes apart, given as the only input, come back as
\* one group that holds both.
C6_TenMinutesGrouped ==
    ( /\ pc = "grouped"
      /\ Len(memories) = 2
      /\ memories[1].content = memories[2].content
      /\ ClaimMillisApart(memories[1], memories[2]) = 600000 )
    => /\ Len(groups) = 1
       /\ Members(1) = {1, 2}

\* Jaccard similarity |a /\ b| / |a \/ b| of two word sets against 3/10; it
\* is undefined, and neither at least nor above 3/10, when both are empty.
JaccardAtLeastThreeTenths(a, b) ==
    /\ a \cup b # {}
    /\ 10 * Cardinality(a \cap b) >= 3 * Cardinality(a \cup b)
JaccardAboveThreeTenths(a, b) ==
    /\ a \cup b # {}
    /\ 10 * Cardinality(a \cap b) > 3 * Cardinality(a \cup b)

C8_GreedyInInputOrder ==
    pc = "grouped" =>
        /\ \A g \in GroupIndex : \A k \in 2..Len(groups[g]) :
              /\ Seed(g).id < groups[g][k].id
              /\ are_thoughts_related(Seed(g), groups[g][k])
        /\ \A g, h \in GroupIndex : g < h => Seed(g).id < Seed(h).id
        /\ \A g, h \in GroupIndex : g < h =>
              \A k \in 1..Len(groups[h]) :
                  ~are_thoughts_related(Seed(g), groups[h][k])

\* Two groups, where a member of the first is also related to the seed of
\* the second: it joined the first group it qualified for.
C8_Witness ==
    /\ pc = "grouped"
    /\ Len(groups) = 2
    /\ \E k \in 2..Len(groups[1]) :
          are_thoughts_related(groups[1][k], Seed(2))


(***************************************************************************)
(* Claims about the consolidation gate and request.                        *)
(***************************************************************************)
\* The memories that carry a numeric memory_consolidation_need facet.
Carriers == {i \in 1..Len(memories) : memories[i].need.kind = "number"}

RECURSIVE TenthsOver(_)
TenthsOver(S) ==
    IF S = {} THEN 0
    ELSE LET i == CHOOSE x \in S : TRUE
         IN  memories[i].need.tenths + TenthsOver(S \ {i})

\* C9: should_consolidate is true exactly when there are at least 3
\* memories and the mean of the facet over the memories that carry it is at
\* least 0.6 (sum of the tenths >= 6 * number of carriers); so 2 memories
\* give false and 3 memories averaging exactly 0.6 give true.
C9_GateIsMeanOverCarriers ==
    pc = "gated" =>
        ( gate <=> /\ Len(memories) >= 3
                   /\ Carriers # {}
                   /\ TenthsOver(Carriers) >= 6 * Cardinality(Carriers) )

\* C10: from Idle a request with force = true goes to Process, with the
\* groups of the memory set computed, whatever the gate says; a request
\* with force absent or false whose gate fails goes to Skip with the zero
\* result (0 experiences, 0 thoughts, no themes).
C10_ForceBypassesGate ==
    [][ pc = "Idle" =>
          /\ (request.force.some /\ request.force.v)
                => /\ pc' = "Process"
                   /\ groups' = group_related_thoughts(memories)
          /\ (~(request.force.some /\ request.force.v)
                  /\ ~should_consolidate(memories))
                => /\ pc' = "Skip"
                   /\ experiences_created' = 0
                   /\ thoughts_consolidated' = 0
                   /\ all_themes' = <<>> ]_vars

\* A forced request over fewer than 3 memories, whose gate fails, that has
\* made an Experience.
C10_Witness ==
    /\ pc = "Process"
    /\ request.force = Some(TRUE)
    /\ Len(memories) < 3
    /\ ~should_consolidate(memories)
    /\ experiences_created = 1

(***************************************************************************)
(* Claims about the loop of a consolidation request.                       *)
(***************************************************************************)
\* The cap the claims give: max_experiences, 5 when the request gives none.
ClaimExperienceCap ==
    IF request.max_experiences.some THEN request.max_experiences.v ELSE 5

RECURSIVE ClaimSizeSum(_)
ClaimSizeSum(n) == IF n = 0 THEN 0 ELSE ClaimSizeSum(n - 1) + Len(groups[n])

\* C11: a consolidation request makes one Experience per group, in the order
\* of the groups, and at most max_experiences of them (5 when the request
\* gives no cap); the groups beyond the cap are dropped; experiences_created
\* is the number of groups processed and thoughts_consolidated is the sum of
\* the sizes of exactly those groups.
C11_CapOnExperiences ==
    pc \in {"Process", "Done"} =>
        LET done == cursor - 1
        IN  /\ experiences_created = done
            /\ done <= ClaimExperienceCap
            /\ done <= Len(groups)
            /\ thoughts_consolidated = ClaimSizeSum(done)
            /\ pc = "Done" =>
                  done = IF ClaimExperienceCap < Len(groups)
                         THEN ClaimExperienceCap ELSE Len(groups)

\* A finished request whose cap of 1 dropped the second of two groups.
C11_Witness ==
    /\ pc = "Done"
    /\ Len(groups) = 2
    /\ request.max_experiences = Some(1)
    /\ experiences_created = 1
    /\ thoughts_consolidated = Len(groups[1])

(***************************************************************************)
(* consolidation.rs, create_experience_from_thoughts: the fields of the    *)
(* Experience that depend on the group alone.  The title, the summary and  *)
(* the themes come from the backend or from local heuristics; the themes   *)
(* are an argument here.  The context hash is a hash of the member ids in  *)
(* order, modelled by the sequence of ids itself.                          *)
(***************************************************************************)
create_context_hash(thoughts) == [k \in 1..Len(thoughts) |-> thoughts[k].id]

\* thoughts.iter().map(|t| t.timestamp).min().unwrap_or(now)
created_at_first(thoughts, now) ==
    IF thoughts = <<>> THEN now ELSE thoughts[1].timestamp
created_at(thoughts, now) ==
    IF thoughts = <<>> THEN now
    ELSE Min({thoughts[k].timestamp : k \in 1..Len(thoughts)})

create_experience_from_thoughts(thoughts, id, now, themes) ==
    [id |-> id,
     consolidated_from |-> [k \in 1..Len(thoughts) |-> thoughts[k].id],
     created_at |-> created_at(thoughts, now),
     consolidated_at |-> now,
     themes |-> themes,
     context_hash |-> create_context_hash(thoughts)]

\* MemoryStore::add_experience: the store keeps every experience it is given.
add_experience(exps, experience) == Append(exps, experience)

\* MemoryStore::get_experiences: every experience of the store, in the
\* store's order.
get_experiences(exps) == exps

\* experiences.sort_by(|a, b| b.created_at.cmp(&a.created_at)): a stable
\* sort, the latest created first.
RECURSIVE sort_by_created_at(_)
sort_by_created_at(exps) ==
    IF exps = <<>> THEN <<>>
    ELSE LET sorted == sort_by_created_at(SubSeq(exps, 1, Len(exps) - 1))
             x == exps[Len(exps)]
             ahead == { i \in 1..Len(sorted) :
                          sorted[i].created_at >= x.created_at }
             n == Cardinality(ahead)
         IN  SubSeq(sorted, 1, n) \o <<x>> \o SubSeq(sorted, n + 1, Len(sorted))

\* get_ltm_experiences: truncate(limit), then the sort.
get_ltm_experiences(exps, limit) ==
    LET all == get_experiences(exps)
        truncated == IF limit.some THEN truncate(all, limit.v) ELSE all
    IN  sort_by_created_at(truncated)

(***************************************************************************)
(* Specification of the consolidation handler, consolidate_stm_to_ltm.     *)
(* The store is filled with up to MaxStoreLen memories of the run's two    *)
(* templates; then up to two requests are served, one after the other.     *)
(* A request copies the memories out of the store (memories is the copy),  *)
(* calls consolidate_thoughts (the actions of the request specification),  *)
(* groups the copy again and adds one Experience per group to the store.   *)
(* clear_data may empty the store between any two steps of a request.      *)
(***************************************************************************)
HandlerTemplates ==
    { [modality |-> "Text", timestamp |-> t, embedding |-> <<>>,
       content |-> c, need |-> NumberFacet(8)] :
        t \in {0, 600000, 7200000},
        c \in {ContentSix, ContentFour, ContentSeven} }
    \cup { [modality |-> "Text", timestamp |-> 0, embedding |-> <<>>,
             content |-> ContentSix, need |-> NoFacet] }

HandlerPalettes == { P \in SUBSET HandlerTemplates : Cardinality(P) = 2 }

HandlerRequests ==
    { [force |-> None, max_experiences |-> None],
      [force |-> Some(TRUE), max_experiences |-> None],
      [force |-> Some(TRUE), max_experiences |-> Some(1)] }

\* The themes found for a group (the claims on the handler do not read them).
HandlerThemes == { <<"research">> }

\* Utc::now() at the synthesis of an Experience.
ClockChoices == { 7200000 + 1 }

\* The ConsolidationResult the engine returned, and the zero result.  An
\* entry of responses pairs the request with the result answered to it.
ConsolidationResult ==
    [experiences_created |-> experiences_created,
     thoughts_consolidated |-> thoughts_consolidated,
     themes_identified |-> all_themes]

ZeroResult ==
    [experiences_created |-> 0, thoughts_consolidated |-> 0,
     themes_identified |-> <<>>]

Answered(req, res) == [request |-> req, result |-> res]

InitHandler ==
    /\ memories = <<>>
    /\ palette \in HandlerPalettes
    /\ pc = "store"
    /\ focus_embedding = NoFocus
    /\ max_count = 0
    /\ result = <<>>
    /\ groups = <<>>
    /\ gate = FALSE
    /\ request = NoRequest
    /\ cursor = 0
    /\ experiences_created = 0
    /\ thoughts_consolidated = 0
    /\ all_themes = <<>>
    /\ HandlerIdle
    /\ ReflectIdle
    /\ ServerIdle
    /\ CallIdle

\* A memory reaches the store before the first request.
PushStoreMemory(k) ==
    /\ pc = "store"
    /\ Len(store) < MaxStoreLen
    /\ store' = Append(store, FromTemplate(Len(store) + 1, k))
    /\ UNCHANGED <<restVars, memories, palette, pc, selectVars, groups, gate,
                   requestVars, experiences, responses, reflectVars>>

\* A request starts: get_all_memories() cloned under the read lock.  An
\* empty copy is answered at once with the zero result.
HandlerSnapshot(req) ==
    /\ pc \in {"store", "Responded"}
    /\ Len(responses) < 2
    /\ request' = req
    /\ memories' = store
    /\ IF store = <<>>
       THEN /\ responses' = Append(responses, Answered(req, ZeroResult))
            /\ pc' = "Responded"
       ELSE /\ pc' = "input"
            /\ UNCHANGED responses
    /\ UNCHANGED <<restVars, palette, selectVars, groups, gate, cursor,
                   experiences_created, thoughts_consolidated, all_themes,
                   store, experiences, reflectVars>>

\* consolidate_thoughts has returned Ok(result).
HandlerResult ==
    /\ pc \in {"Skip", "Done"}
    /\ IF experiences_created > 0
       THEN /\ groups' = group_related_thoughts(memories)
            /\ cursor' = 1
            /\ pc' = "Adding"
            /\ UNCHANGED responses
       ELSE /\ responses' =
                   Append(responses, Answered(request, ConsolidationResult))
            /\ pc' = "Responded"
            /\ UNCHANGED <<restVars, groups, cursor>>
    /\ UNCHANGED <<restVars, memories, palette, selectVars, gate, request,
                   experiences_created, thoughts_consolidated, all_themes,
                   store, experiences, reflectVars>>

\* groups.iter().take(result.experiences_created)
adding_has_next ==
    /\ cursor <= Len(groups)
    /\ cursor <= experiences_created

\* A turn of the loop that adds no Experience whose context hash the store
\* already holds.
HandlerAddExperienceOnce(themes, now) ==
    /\ pc = "Adding"
    /\ adding_has_next
    /\ cursor' = cursor + 1
    /\ IF \/ Len(groups[cursor]) < 2
          \/ \E k \in 1..Len(experiences) :
                experiences[k].context_hash = create_context_hash(groups[cursor])
       THEN UNCHANGED experiences
       ELSE experiences' =
                add_experience(experiences,
                    create_experience_from_thoughts(groups[cursor],
                        Len(experiences) + 1, now, themes))
    /\ UNCHANGED <<restVars,
                   memories, palette, pc, selectVars, groups, gate, request,
                   experiences_created, thoughts_consolidated, all_themes,
                   store, responses, reflectVars>>

\* One turn of the handler's loop: the Experience of the group at the cursor
\* is added to the store under the write lock.
HandlerAddExperience(themes, now) ==
    /\ pc = "Adding"
    /\ adding_has_next
    /\ cursor' = cursor + 1
    /\ IF Len(groups[cursor]) < 2
       THEN UNCHANGED experiences
       ELSE experiences' =
                add_experience(experiences,
                    create_experience_from_thoughts(groups[cursor],
                        Len(experiences) + 1, now, themes))
    /\ UNCHANGED <<restVars,
                   memories, palette, pc, selectVars, groups, gate, request,
                   experiences_created, thoughts_consolidated, all_themes,
                   store, responses, reflectVars>>

\* The loop is over: the experiences are saved (a failure is only logged)
\* and the result is answered.
HandlerRespond ==
    /\ pc = "Adding"
    /\ ~adding_has_next
    /\ responses' = Append(responses, Answered(request, ConsolidationResult))
    /\ pc' = "Responded"
    /\ UNCHANGED <<restVars,
                   memories, palette, selectVars, groups, gate, requestVars,
                   store, experiences, reflectVars>>

\* clear_data, served between two steps of a consolidation request.
ClearData ==
    /\ pc # "store"
    /\ store # <<>>
    /\ store' = <<>>
    /\ UNCHANGED <<restVars, memories, palette, pc, selectVars, groups, gate,
                   requestVars, experiences, responses, reflectVars>>

\* MemoryQuery::limit of a get_ltm_experiences request.
LimitChoices == { None, Some(1), Some(3) }

\* get_ltm_experiences, served after a consolidation request was answered.
GetLtmExperiences(limit) ==
    /\ pc = "Responded"
    /\ listed' = [limit |-> limit,
                  data |-> get_ltm_experiences(experiences, limit)]
    /\ pc' = "Listed"
    /\ UNCHANGED <<engineVars, palette, handlerVars, reflectVars, serverVars,
                   cosine, stm_file, loaded>>

NextHandler ==
    \/ \E k \in palette : PushStoreMemory(k)
    \/ \E req \in HandlerRequests : HandlerSnapshot(req)
    \/ CallConsolidate(request)
    \/ GateCheck
    \/ \E themes \in HandlerThemes : ProcessGroup(themes)
    \/ ReturnResult
    \/ HandlerResult
    \/ \E themes \in HandlerThemes, now \in ClockChoices :
           HandlerAddExperience(themes, now)
    \/ HandlerRespond
    \/ ClearData
    \/ \E limit \in LimitChoices : GetLtmExperiences(limit)

SpecHandler == InitHandler /\ [][NextHandler]_vars

(***************************************************************************)
(* Claims about the consolidation handler and the experiences of the store.*)
(***************************************************************************)
ClaimSourceIds(e) ==
    {e.consolidated_from[k] : k \in 1..Len(e.consolidated_from)}
ClaimSnapshotIds == {memories[i].id : i \in 1..Len(memories)}
ClaimEarliest(ids) ==
    Min({memories[i].timestamp : i \in {j \in 1..Len(memories) :
                                            memories[j].id \in ids}})

\* C12: every Experience of the store has a consolidated_from list of at
\* least 2 memory ids; the store only changes its experiences by gaining
\* one, and the one gained has only ids of memories of the copy the request
\* read, and the earliest timestamp of those memories as its created_at.
C12_ExperiencesFromSnapshot ==
    /\ [](\A k \in 1..Len(experiences) :
             Len(experiences[k].consolidated_from) >= 2)
    /\ [][experiences' # experiences =>
            /\ Len(experiences') = Len(experiences) + 1
            /\ SubSeq(experiences', 1, Len(experiences)) = experiences
            /\ LET e == experiences'[Len(experiences')]
               IN  /\ Len(e.consolidated_from) >= 2
                   /\ ClaimSourceIds(e) \subseteq ClaimSnapshotIds
                   /\ Cardinality(ClaimSourceIds(e)) = Len(e.consolidated_from)
                   /\ e.created_at = ClaimEarliest(ClaimSourceIds(e))]_vars

\* An Experience made from a copy that the store no longer holds, whose first
\* source memory is not its earliest.
C12_Witness ==
    /\ experiences # <<>>
    /\ memories # <<>>
    /\ store = <<>>
    /\ LET e == experiences[1]
       IN  /\ ClaimSourceIds(e) \subseteq ClaimSnapshotIds
           /\ e.created_at < memories[e.consolidated_from[1]].timestamp

\* The scenario of C13 on the copy a request read.
ClaimFourTextInTenMinutes ==
    /\ Len(memories) = 4
    /\ \A i \in 1..4 : memories[i].modality = "Text"
    /\ \A i, j \in 1..4 : ClaimMillisApart(memories[i], memories[j]) <= 600000
ClaimCarrierMeanEightTenths ==
    /\ Carriers # {}
    /\ TenthsOver(Carriers) = 8 * Cardinality(Carriers)
ClaimDefaultRequestAnswered ==
    /\ pc = "Responded"
    /\ Len(responses) = 1
    /\ responses[1].request = [force |-> None, max_experiences |-> None]

\* C13: a store of exactly 4 Text memories within 10 minutes, pairwise of
\* Jaccard similarity at least 0.3 (0.3 included), whose consolidation-need
\* facets average 0.8: a request with default parameters adds exactly one
\* Experience, consolidated from all 4 ids.
C13_FourMemoriesOneExperience ==
    ( /\ ClaimDefaultRequestAnswered
      /\ ClaimFourTextInTenMinutes
      /\ ClaimCarrierMeanEightTenths
      /\ \A i, j \in 1..4 :
            /\ ClaimDistinct(memories[i], memories[j]) > 0
            /\ 10 * ClaimShared(memories[i], memories[j])
                   >= 3 * ClaimDistinct(memories[i], memories[j]) )
    => /\ Len(experiences) = 1
       /\ ClaimSourceIds(experiences[1]) = 1..4

\* C14: two successive requests with force = true over the same unchanged
\* memory set each add their Experiences; nothing is dropped for an equal
\* context hash: the store then holds the experiences of both runs, twice
\* as many as after the first when the two requests are equal.
C14_SecondRunAddsAgain ==
    ( /\ pc = "Responded"
      /\ Len(responses) = 2
      /\ responses[1].request.force = Some(TRUE)
      /\ responses[2].request.force = Some(TRUE)
      /\ store # <<>> )
    => LET first == responses[1].result.experiences_created
           second == responses[2].result.experiences_created
       IN  /\ Len(experiences) = first + second
           /\ \A k \in 1..Len(experiences) : experiences[k].id = k
           /\ responses[1].request = responses[2].request =>
                 /\ Len(experiences) = 2 * first
                 /\ \A k \in 1..first :
                       /\ experiences[first + k].consolidated_from
                              = experiences[k].consolidated_from
                       /\ experiences[first + k].context_hash
                              = experiences[k].context_hash

\* Two forced requests over an unchanged store, each adding two experiences.
C14_Witness ==
    /\ pc = "Responded"
    /\ Len(responses) = 2
    /\ responses[1].request = [force |-> Some(TRUE), max_experiences |-> None]
    /\ responses[2].request = responses[1].request
    /\ store # <<>>
    /\ Len(experiences) = 4
    /\ experiences[3].context_hash = experiences[1].context_hash

(***************************************************************************)
(* handlers.rs, generate_fallback_thought.  A text is the sequence of the  *)
(* pieces that format! puts together; a metric is given in tenths; the id  *)
(* (Uuid::new_v4) and generated_at (Utc::now) are arguments.               *)
(***************************************************************************)
\* memories.iter().take(5), and a loop over the whole list instead.
recent_memories_all(mems) == mems
recent_memories(mems) == Take(mems, 5)

modality_str(m) ==
    CASE m.modality = "Vision" -> "vision" [] m.modality = "Speech" -> "speech"
      [] m.modality = "Text" -> "text" [] m.modality = "Concept" -> "concept"

\* vision_count, speech_count, text_count (Text and Concept count as text)
modality_count(mems, mods) ==
    Cardinality({i \in 1..Len(recent_memories(mems)) :
                    mems[i].modality \in mods})

\* recent_events: "[modality] content" of the memories with content
RECURSIVE recent_events(_, _)
recent_events(mems, n) ==
    IF n = 0 THEN <<>>
    ELSE IF mems[n].content # <<>>
         THEN Append(recent_events(mems, n - 1),
                     <<"[", modality_str(mems[n]), "] ", mems[n].content>>)
         ELSE recent_events(mems, n - 1)

thought_content(mems, query) ==
    LET events == recent_events(mems, Len(recent_memories(mems)))
        tally(first, last) ==
            <<first, modality_count(mems, {"Vision"}), " vision, ",
              modality_count(mems, {"Speech"}), " speech, and ",
              modality_count(mems, {"Text", "Concept"}), last>>
    IN  IF query.some
        THEN <<"Processing query: '", query.v, "'. Recent events: ", events>>
                 \o tally(". I observe ", " text events.")
        ELSE IF events # <<>>
             THEN <<"I observed: ", events>>
                      \o tally(". This gives me ", " text memories to process.")
             ELSE tally("I have ",
                   " text memories, but no specific content to reflect on.")

\* A fallback whose text carries the time of the call.
generate_fallback_thought_stamped(mems, query, id, now) ==
    [id |-> id, title |-> "Fallback Reflection",
     thought |-> Append(thought_content(mems, query), now),
     metrics |-> [self_awareness |-> 5, memory_consolidation_need |-> 5,
                  emotional_stability |-> 5, creative_insight |-> 5],
     consolidate |-> <<>>, generated_at |-> now,
     context_hash |-> <<"fallback_", Len(mems)>>, model |-> "fallback"]

generate_fallback_thought(mems, query, id, now) ==
    LET total_memories == Len(mems)
    IN  [id |-> id,
         title |-> "Fallback Reflection",
         thought |-> thought_content(mems, query),
         metrics |->
            [self_awareness |-> IF total_memories > 0 THEN 6 ELSE 3,
             memory_consolidation_need |-> IF total_memories > 3 THEN 7 ELSE 4,
             emotional_stability |-> 5,
             creative_insight |->
                IF /\ modality_count(mems, {"Vision"}) > 0
                   /\ modality_count(mems, {"Speech"}) > 0
                THEN 6 ELSE 3],
         consolidate |->
            IF total_memories > 2
            THEN [k \in 1..3 |-> mems[k].id]
            ELSE <<>>,
         generated_at |-> now,
         context_hash |-> <<"fallback_", total_memories>>,
         model |-> "fallback"]

(***************************************************************************)
(* Specification of the fallback: generate_fallback_thought is called up   *)
(* to twice on one list of up to MaxFallbackLen memories and one query,    *)
(* each call with its own id and time.                                     *)
(***************************************************************************)
FallbackTemplates ==
    { [modality |-> m, timestamp |-> 0, embedding |-> <<>>,
       content |-> c, need |-> NoFacet] :
        m \in Modality, c \in {ContentEmpty, ContentFour} }

FallbackPalettes == { P \in SUBSET FallbackTemplates : Cardinality(P) = 2 }

QueryChoices == { None, Some("why") }
UuidChoices == { 101, 102 }
NowChoices == { 7200000 + 1, 7200000 + 2 }

InitFallback ==
    /\ memories = <<>>
    /\ palette \in FallbackPalettes
    /\ pc = "input"
    /\ focus_embedding = NoFocus
    /\ max_count = 0
    /\ result = <<>>
    /\ groups = <<>>
    /\ gate = FALSE
    /\ request = NoRequest
    /\ cursor = 0
    /\ experiences_created = 0
    /\ thoughts_consolidated = 0
    /\ all_themes = <<>>
    /\ HandlerIdle
    /\ ReflectIdle
    /\ ServerIdle
    /\ CallIdle

PushFallbackMemory(k) ==
    /\ pc = "input"
    /\ Len(memories) < MaxFallbackLen
    /\ memories' = Append(memories, FromTemplate(Len(memories) + 1, k))
    /\ UNCHANGED <<restVars, handlerVars, reflectVars,
                   palette, pc, selectVars, groups, gate, requestVars>>

\* The first call fixes the query; the second call repeats it.
CallFallback(query, id, now) ==
    /\ pc \in {"input", "fallback"}
    /\ Len(ego_thoughts) < 2
    /\ pc = "fallback" => query = user_query
    /\ \A k \in 1..Len(ego_thoughts) : ego_thoughts[k].id # id
    /\ user_query' = query
    /\ ego_thoughts' =
           Append(ego_thoughts,
                  generate_fallback_thought(memories, query, id, now))
    /\ pc' = "fallback"
    /\ UNCHANGED <<restVars,
                   handlerVars, memories, palette, selectVars, groups, gate,
                   requestVars, backend, reply>>

NextFallback ==
    \/ \E k \in palette : PushFallbackMemory(k)
    \/ \E query \in QueryChoices, id \in UuidChoices, now \in NowChoices :
           CallFallback(query, id, now)

SpecFallback == InitFallback /\ [][NextFallback]_vars

ClaimHas(mod, n) == \E i \in 1..n : memories[i].modality = mod
ClaimFallbackRules(t, insight) ==
    /\ t.metrics.self_awareness = IF Len(memories) > 0 THEN 6 ELSE 3
    /\ t.metrics.memory_consolidation_need = IF Len(memories) > 3 THEN 7 ELSE 4
    /\ t.metrics.emotional_stability = 5
    /\ t.metrics.creative_insight = IF insight THEN 6 ELSE 3
    /\ t.consolidate = IF Len(memories) > 2
                       THEN <<memories[1].id, memories[2].id, memories[3].id>>
                       ELSE <<>>

\* C19, as claimed: the metrics follow the fixed rules on lists of any
\* length, creative_insight being 0.6 when the list contains both a Vision
\* and a Speech memory.
C19_InsightFromWholeList ==
    \A k \in 1..Len(ego_thoughts) :
        ClaimFallbackRules(ego_thoughts[k],
            ClaimHas("Vision", Len(memories)) /\ ClaimHas("Speech", Len(memories)))

\* C19, amended: creative_insight is 0.6 when the first 5 memories of the
\* list contain both a Vision and a Speech memory, else 0.3; the other
\* metrics and the suggested ids are as claimed, on lists of any length.
C19_InsightFromFirstFive ==
    \A k \in 1..Len(ego_thoughts) :
        LET n == IF Len(memories) < 5 THEN Len(memories) ELSE 5
        IN  ClaimFallbackRules(ego_thoughts[k],
                ClaimHas("Vision", n) /\ ClaimHas("Speech", n))

\* A list of 6 memories whose only Speech memory is the sixth.
C19_Witness ==
    /\ Len(memories) = 6
    /\ ego_thoughts # <<>>
    /\ ClaimHas("Vision", 5)
    /\ ~ClaimHas("Speech", 5)
    /\ memories[6].modality = "Speech"
    /\ ego_thoughts[1].metrics.creative_insight = 3
    /\ ego_thoughts[1].metrics.memory_consolidation_need = 7

(***************************************************************************)
(* reflection.rs, parse_reflection_response.  The raw text of the backend  *)
(* is a sequence of tokens: the braces "{" and "}", "p" for any other      *)
(* character, "fields" for the text of a JSON object's members that        *)
(* deserialize into a ReflectionResponse (it carries their values; the     *)
(* braces of the metrics object lie inside it) and "other" for any other   *)
(* JSON members.  A metric is given in tenths.                             *)
(***************************************************************************)
RECURSIVE find(_, _, _)
find(text, ch, from) ==
    IF from > Len(text) THEN 0
    ELSE IF text[from].ch = ch THEN from ELSE find(text, ch, from + 1)

RECURSIVE rfind(_, _, _)
rfind(text, ch, from) ==
    IF from = 0 THEN 0
    ELSE IF text[from].ch = ch THEN from ELSE rfind(text, ch, from - 1)

\* &response[start..=end]: a failure without both braces, a panic when the
\* range starts after its end, else the span.
json_str(response) ==
    LET start == find(response, "{", 1)
        end == rfind(response, "}", Len(response))
    IN  IF start = 0 \/ end = 0 THEN [kind |-> "err"]
        ELSE IF start > end + 1 THEN [kind |-> "panic"]
        ELSE [kind |-> "ok", v |-> SubSeq(response, start, end)]

\* serde_json::from_str::<ReflectionResponse>
from_str(span) ==
    IF /\ Len(span) = 3
       /\ span[1].ch = "{"
       /\ span[2].ch = "fields"
       /\ span[3].ch = "}"
    THEN [kind |-> "ok", v |-> span[2]]
    ELSE [kind |-> "err"]

\* A validation that does not look at the consolidate list.
validate_title_and_thought(parsed) ==
    IF parsed.title = "" \/ parsed.thought = <<>>
    THEN [kind |-> "err"]
    ELSE [kind |-> "ok", v |-> parsed]

validate(parsed) ==
    IF parsed.title = "" \/ parsed.thought = <<>>
    THEN [kind |-> "err"]
    ELSE IF Len(parsed.consolidate) > 5
         THEN [kind |-> "err"]
         ELSE [kind |-> "ok", v |-> parsed]

parse_reflection_response(response) ==
    LET span == json_str(response)
    IN  IF span.kind # "ok" THEN span
        ELSE LET parsed == from_str(span.v)
             IN  IF parsed.kind # "ok" THEN parsed ELSE validate(parsed.v)

\* generate_reflection: the EgoThought made of a validated response.
generate_reflection(data, id, now) ==
    [id |-> id, title |-> data.title, thought |-> data.thought,
     metrics |-> data.metrics, consolidate |-> data.consolidate,
     generated_at |-> now, context_hash |-> <<"context">>,
     model |-> "model"]

\* reflect: the thought converted to a Memory, with its metrics as facets.
\* A metric that is not finite: serde reads a JSON number beyond the range
\* of f32 (1e39) into an f32 field as infinity.  The metrics are counted in
\* tenths; this value stands for infinity.
f32_infinity == 2 ^ 20

\* serde_json::Number::from_f64: None for a value that is not finite.
from_f64(x) == IF x = f32_infinity THEN None ELSE Some(x)

\* Number::from_f64(metric as f64).unwrap_or(Number::from(0))
facet_number(x) == unwrap_or(from_f64(x), 0)

thought_to_memory(thought, now) ==
    [id |-> thought.id, modality |-> "Text", timestamp |-> now,
     embedding |-> <<>>, content |-> thought.thought,
     need |->
        NumberFacet(facet_number(thought.metrics.memory_consolidation_need)),
     self_awareness |-> facet_number(thought.metrics.self_awareness),
     emotional_stability |-> facet_number(thought.metrics.emotional_stability),
     creative_insight |-> facet_number(thought.metrics.creative_insight),
     context_hash |-> thought.context_hash,
     tags |-> <<"thought", "ego">>]

\* MemoryStore::add_memory: HashMap::insert by id.
add_memory(mems, memory) ==
    IF \E i \in 1..Len(mems) : mems[i].id = memory.id
    THEN [i \in 1..Len(mems) |->
             IF mems[i].id = memory.id THEN memory ELSE mems[i]]
    ELSE Append(mems, memory)

\* reflect: the selected memories, or the first 5 when none is selected.
memories_to_use(all_memories, selected_memories) ==
    IF selected_memories = <<>> THEN Take(all_memories, 5)
    ELSE selected_memories

(***************************************************************************)
(* Specification of a reflect request (handlers.rs, reflect, and           *)
(* reflection.rs, reflect_on_memories).  The store holds up to MaxStoreLen *)
(* memories of the run's two templates; the request brings at most one     *)
(* more.  Every call of the backend succeeds or fails; the text of the     *)
(* last call is drawn from ResponseChoices.  pc follows the request: Map   *)
(* (one call per memory, then the call that reduces the notes), Generate,  *)
(* then Store, by way of Fallback after a failure, then Replied; Aborted   *)
(* is the end of a request whose task panicked.                            *)
(***************************************************************************)
ReflectTemplates ==
    { [modality |-> "Vision", timestamp |-> 1000, embedding |-> <<1, 0>>,
       content |-> ContentFour, need |-> NoFacet],
      [modality |-> "Speech", timestamp |-> 2500, embedding |-> <<1, 1>>,
       content |-> ContentEmpty, need |-> NoFacet],
      [modality |-> "Text", timestamp |-> 2500, embedding |-> <<1, 0>>,
       content |-> ContentSix, need |-> NumberFacet(8)],
      [modality |-> "Concept", timestamp |-> 1000, embedding |-> <<>>,
       content |-> ContentEmpty, need |-> NoFacet] }

ReflectPalettes == { P \in SUBSET ReflectTemplates : Cardinality(P) = 2 }

Token(ch) == [ch |-> ch]
Metrics(a, n, s, c) ==
    [self_awareness |-> a, memory_consolidation_need |-> n,
     emotional_stability |-> s, creative_insight |-> c]
Fields(title, thought, metrics, consolidate) ==
    [ch |-> "fields", title |-> title, thought |-> thought,
     metrics |-> metrics, consolidate |-> consolidate]

GoodFields ==
    { Fields("Insight", <<"I see.">>, Metrics(5, 5, 5, 5), <<>>),
      Fields("Insight", <<"I see.">>, Metrics(0, 10, 5, 5), <<1, 2, 3, 4, 5>>) }

FieldChoices ==
    GoodFields \cup {
      Fields("Insight", <<"I see.">>, Metrics(5, 5, 5, 5), <<1, 2, 3, 4, 5, 6>>),
      Fields("", <<"I see.">>, Metrics(5, 5, 5, 5), <<>>),
      Fields("Insight", <<>>, Metrics(5, 5, 5, 5), <<>>),
      Fields("Insight", <<"I see.">>, Metrics(5, 15, 5, 5), <<>>),
      Fields("Insight", <<"I see.">>, Metrics(5, 5, 5, -2), <<>>),
      Fields("Insight", <<"I see.">>, Metrics(f32_infinity, 5, 5, 5), <<>>) }

ResponseChoices ==
    { <<>>,
      <<Token("p")>>,
      <<Token("{"), Token("p")>>,
      <<Token("p"), Token("}")>>,
      <<Token("}"), Token("{")>>,
      <<Token("}"), Token("p"), Token("{")>>,
      <<Token("{"), Token("other"), Token("}")>> }
    \cup { <<Token("{"), f, Token("}")>> : f \in FieldChoices }
    \cup { <<Token("p"), Token("{"), f, Token("}"), Token("p")>> :
              f \in GoodFields }
    \cup { <<Token("{"), f, Token("}"), Token("p"), Token("}")>> :
              f \in GoodFields }

\* ReflectionRequest::memories: none, or one memory of a template.
RequestMemories ==
    { <<>> } \cup { <<FromTemplate(Len(store) + 1, k)>> : k \in palette }

InitReflect ==
    /\ memories = <<>>
    /\ palette \in ReflectPalettes
    /\ pc = "store"
    /\ focus_embedding = NoFocus
    /\ max_count = 0
    /\ result = <<>>
    /\ groups = <<>>
    /\ gate = FALSE
    /\ request = NoRequest
    /\ cursor = 0
    /\ experiences_created = 0
    /\ thoughts_consolidated = 0
    /\ all_themes = <<>>
    /\ HandlerIdle
    /\ ReflectIdle
    /\ ServerIdle
    /\ CallIdle

\* The request arrives: the memories of the store and of the request are
\* put together and the relevant ones selected, at most 5.
ReflectStart(request_memories, focus, query) ==
    /\ pc = "store"
    /\ memories' = store \o request_memories
    /\ focus_embedding' = focus
    /\ max_count' = 5
    /\ result' = select_relevant_memories(memories', focus, 5)
    /\ user_query' = query
    /\ cursor' = 0
    /\ pc' = "Map"
    /\ UNCHANGED <<restVars, handlerVars, palette, groups, gate, request,
                   experiences_created, thoughts_consolidated, all_themes,
                   backend, ego_thoughts, reply>>

\* A call of the backend failed: reflect_on_memories returns the error.
BackendFailed ==
    /\ backend' = [failed |-> TRUE, response |-> None]
    /\ pc' = "Fallback"
    /\ UNCHANGED <<restVars,
                   handlerVars, memories, palette, selectVars, groups, gate,
                   requestVars, user_query, ego_thoughts, reply>>

\* map_memories_to_notes: one call of the backend per memory.
MapMemoryToNote(ok) ==
    /\ pc = "Map"
    /\ cursor < Len(memories_to_use(memories, result))
    /\ IF ok
       THEN /\ cursor' = cursor + 1
            /\ UNCHANGED <<restVars,
                           handlerVars, reflectVars, memories, palette, pc,
                           selectVars, groups, gate, request,
                           experiences_created, thoughts_consolidated,
                           all_themes>>
       ELSE BackendFailed

\* reduce_notes_to_context: one call of the backend.
ReduceNotesToContext(ok) ==
    /\ pc = "Map"
    /\ cursor = Len(memories_to_use(memories, result))
    /\ IF ok
       THEN /\ pc' = "Generate"
            /\ UNCHANGED <<restVars,
                           handlerVars, reflectVars, memories, palette,
                           selectVars, groups, gate, requestVars>>
       ELSE BackendFailed

\* generate_reflection: the last call of the backend and the parsing of its
\* text.
GenerateReflection(ok, response, id, now) ==
    /\ pc = "Generate"
    /\ IF ~ok THEN BackendFailed
       ELSE LET parsed == parse_reflection_response(response)
            IN  /\ backend' = [failed |-> FALSE, response |-> Some(response)]
                /\ CASE parsed.kind = "ok" ->
                           /\ ego_thoughts' =
                                  <<generate_reflection(parsed.v, id, now)>>
                           /\ pc' = "Store"
                           /\ UNCHANGED reply
                     [] parsed.kind = "err" ->
                           /\ pc' = "Fallback"
                           /\ UNCHANGED <<restVars, ego_thoughts, reply>>
                     [] parsed.kind = "panic" ->
                           /\ pc' = "Aborted"
                           /\ reply' = "panic"
                           /\ UNCHANGED ego_thoughts
                /\ UNCHANGED <<restVars,
                               handlerVars, memories, palette, selectVars,
                               groups, gate, requestVars, user_query>>

\* reflect, Err(e): the fallback thought of the same memories and query.
ReflectFallback(id, now) ==
    /\ pc = "Fallback"
    /\ ego_thoughts' =
           <<generate_fallback_thought(memories_to_use(memories, result),
                                       user_query, id, now)>>
    /\ pc' = "Store"
    /\ UNCHANGED <<restVars,
                   handlerVars, memories, palette, selectVars, groups, gate,
                   requestVars, user_query, backend, reply>>

\* The thought is stored as a memory (a failure of the save is only logged)
\* and answered in a success envelope.
StoreThought(now) ==
    /\ pc = "Store"
    /\ store' = add_memory(store, thought_to_memory(ego_thoughts[1], now))
    /\ reply' = "success"
    /\ pc' = "Replied"
    /\ UNCHANGED <<restVars,
                   memories, palette, selectVars, groups, gate, requestVars,
                   experiences, responses, user_query, backend, ego_thoughts>>

NextReflect ==
    \/ \E k \in palette : PushStoreMemory(k)
    \/ \E request_memories \in RequestMemories, focus \in FocusChoices,
          query \in QueryChoices :
           ReflectStart(request_memories, focus, query)
    \/ \E ok \in BOOLEAN : MapMemoryToNote(ok)
    \/ \E ok \in BOOLEAN : ReduceNotesToContext(ok)
    \/ \E ok \in BOOLEAN, response \in ResponseChoices, id \in UuidChoices,
          now \in ClockChoices :
           GenerateReflection(ok, response, id, now)
    \/ \E id \in UuidChoices, now \in ClockChoices : ReflectFallback(id, now)
    \/ \E now \in ClockChoices : StoreThought(now)

SpecReflect == InitReflect /\ [][NextReflect]_vars

(***************************************************************************)
(* Claims about reflect.                                                   *)
(***************************************************************************)
ClaimRequestEnded == pc \in {"Replied", "Aborted"}

\* The fields of the backend's last text, if it carries any.
ClaimResponseFields ==
    IF backend.response.some
    THEN {backend.response.v[k] : k \in {j \in 1..Len(backend.response.v) :
                                           backend.response.v[j].ch = "fields"}}
    ELSE {}

\* The thought has the content of the fallback thought of the memories the
\* request selected and of its query.
ClaimIsFallback(t) ==
    LET f == generate_fallback_thought(memories_to_use(memories, result),
                                       user_query, t.id, t.generated_at)
    IN  /\ t.model = "fallback"
        /\ t.title = f.title
        /\ t.thought = f.thought
        /\ t.metrics = f.metrics
        /\ t.consolidate = f.consolidate

\* C15: a reflect request ends with a Thought in a success envelope whatever
\* the backend does; when a call of the backend failed, or its last text
\* failed parsing or validation, that Thought is the fallback thought of the
\* selected memories and the query.
C15_AlwaysAThought ==
    ClaimRequestEnded =>
        /\ reply = "success"
        /\ Len(ego_thoughts) = 1
        /\ ( \/ backend.failed
             \/ /\ backend.response.some
                /\ parse_reflection_response(backend.response.v).kind # "ok" )
           => ClaimIsFallback(ego_thoughts[1])

\* C16: a response with an empty title, an empty thought or more than 5
\* consolidate entries is answered by the fallback thought; every Thought,
\* of the backend or of the fallback, has a title, a text and at most 5
\* suggested ids.
C16_ValidatedThoughts ==
    \A k \in 1..Len(ego_thoughts) :
        /\ ego_thoughts[k].title # ""
        /\ ego_thoughts[k].thought # <<>>
        /\ Len(ego_thoughts[k].consolidate) <= 5
        /\ ( \E f \in ClaimResponseFields :
                \/ f.title = ""
                \/ f.thought = <<>>
                \/ Len(f.consolidate) > 5 )
           => ClaimIsFallback(ego_thoughts[k])

\* A request answered by the fallback because the backend suggested 6 ids.
C16_Witness ==
    /\ pc = "Replied"
    /\ reply = "success"
    /\ \E f \in ClaimResponseFields :
          /\ f.title # ""
          /\ f.thought # <<>>
          /\ Len(f.consolidate) = 6
    /\ ego_thoughts[1].model = "fallback"
    /\ Len(memories) > 0

\* C17: parsing never panics: every raw text gives a validated response or
\* a failure, and the request still ends with a Thought.
C17_ParseNeverPanics ==
    backend.response.some =>
        /\ parse_reflection_response(backend.response.v).kind \in {"ok", "err"}
        /\ ClaimRequestEnded => reply = "success" /\ Len(ego_thoughts) = 1

ClaimInRange(x) == 0 <= x /\ x <= 10

\* C20: the four metrics of every Thought lie in [0,1], and so do the
\* metrics kept with the memory of a Thought in the store.
C20_MetricsInRange ==
    /\ \A k \in 1..Len(ego_thoughts) :
          /\ ClaimInRange(ego_thoughts[k].metrics.self_awareness)
          /\ ClaimInRange(ego_thoughts[k].metrics.memory_consolidation_need)
          /\ ClaimInRange(ego_thoughts[k].metrics.emotional_stability)
          /\ ClaimInRange(ego_thoughts[k].metrics.creative_insight)
    /\ \A i \in 1..Len(store) :
          store[i].need.kind = "number" => ClaimInRange(store[i].need.tenths)

(***************************************************************************)
(* Specification of cosine_similarity (memory.rs): two vectors of up to    *)
(* MaxVectorLen components are built one component at a time, then the     *)
(* function is applied to them in both orders.                             *)
(***************************************************************************)
MaxVectorLen == 2
VectorComponents == { -1, 0, 1, 2 }

InitCosine ==
    /\ EngineIdle
    /\ palette = {}
    /\ pc = "input"
    /\ HandlerIdle
    /\ ReflectIdle
    /\ ServerIdle
    /\ cosine = [a |-> <<>>, b |-> <<>>, ab |-> ScoreZero, ba |-> ScoreZero]
    /\ stm_file = <<>>
    /\ loaded = <<>>
    /\ listed = <<>>

PushLeft(x) ==
    /\ pc = "input"
    /\ Len(cosine.a) < MaxVectorLen
    /\ cosine' = [cosine EXCEPT !.a = Append(@, x)]
    /\ UNCHANGED <<engineVars, palette, pc, handlerVars, reflectVars,
                   serverVars, stm_file, loaded, listed>>

PushRight(x) ==
    /\ pc = "input"
    /\ Len(cosine.b) < MaxVectorLen
    /\ cosine' = [cosine EXCEPT !.b = Append(@, x)]
    /\ UNCHANGED <<engineVars, palette, pc, handlerVars, reflectVars,
                   serverVars, stm_file, loaded, listed>>

\* cosine_similarity(a, b) and cosine_similarity(b, a).
CallCosine ==
    /\ pc = "input"
    /\ cosine' = [cosine EXCEPT !.ab = cosine_similarity(cosine.a, cosine.b),
                                !.ba = cosine_similarity(cosine.b, cosine.a)]
    /\ pc' = "called"
    /\ UNCHANGED <<engineVars, palette, handlerVars, reflectVars,
                   serverVars, stm_file, loaded, listed>>

NextCosine ==
    \/ \E x \in VectorComponents : PushLeft(x)
    \/ \E x \in VectorComponents : PushRight(x)
    \/ CallCosine

SpecCosine == InitCosine /\ [][NextCosine]_vars

ClaimAllZeros(v) == \A i \in 1..Len(v) : v[i] = 0

\* C27: cosine_similarity is exactly 0.0 (and a number: its denominator is
\* not zero) when the lengths differ or a vector is all zeros, the empty
\* vector included, and it gives the same value in both orders.
C27_CosineZeroAndSymmetric ==
    pc = "called" =>
        /\ cosine.ab.den > 0
        /\ cosine.ab = cosine.ba
        /\ (\/ Len(cosine.a) # Len(cosine.b)
            \/ ClaimAllZeros(cosine.a)
            \/ ClaimAllZeros(cosine.b)) => cosine.ab = ScoreZero

\* A zero vector against a vector of the same length that is not zero.
C27_Witness ==
    /\ pc = "called"
    /\ cosine.a = <<0, 0>>
    /\ cosine.b = <<2, -1>>
    /\ cosine.ab = ScoreZero

(***************************************************************************)
(* memory.rs: save_to_jsonl and load_from_jsonl.  A line of the file is    *)
(* the JSON object of one memory; "ts" is timestamp.timestamp(), the whole *)
(* seconds since the epoch (negative before it).                           *)
(***************************************************************************)
save_line(memory) ==
    [embedding_id |-> memory.id,
     ts |-> memory.timestamp \div 1000,
     source |-> CASE memory.modality = "Vision" -> "vision"
                  [] memory.modality = "Speech" -> "speech"
                  [] memory.modality = "Text" -> "text"
                  [] memory.modality = "Concept" -> "concept",
     facets |-> memory.need,
     content |-> memory.content,
     tags |-> memory.tags,
     embedding |-> memory.embedding]

\* for memory in self.memories.values() { writeln!(file, ...) }
save_to_jsonl(mems) == [i \in 1..Len(mems) |-> save_line(mems[i])]

\* memory_event["ts"].as_u64().unwrap_or(0): as_u64 is None for a negative
\* number.  DateTime::from_timestamp(ts, 0) is that second, in milliseconds.
load_line(line) ==
    LET as_u64 == IF line.ts >= 0 THEN Some(line.ts) ELSE None
        ts == unwrap_or(as_u64, 0)
    IN  [id |-> line.embedding_id,
         timestamp |-> ts * 1000,
         modality |-> CASE line.source = "vision" -> "Vision"
                        [] line.source = "speech" -> "Speech"
                        [] line.source = "concept" -> "Concept"
                        [] OTHER -> "Text",
         embedding |-> line.embedding,
         content |-> line.content,
         need |-> line.facets,
         tags |-> line.tags]

\* for line in reader.lines() { ... self.memories.insert(id, memory) }
RECURSIVE load_from_jsonl(_, _)
load_from_jsonl(mems, lines) ==
    IF lines = <<>> THEN mems
    ELSE load_from_jsonl(add_memory(mems, load_line(Head(lines))),
                         Tail(lines))

(***************************************************************************)
(* Specification of the round trip through the memory file: a store of up  *)
(* to MaxJsonlLen memories is built from the two templates of the run's    *)
(* palette, saved, and the file loaded into an empty store.                *)
(***************************************************************************)
MaxJsonlLen == 3

JsonlTemplates ==
    { [modality |-> m, timestamp |-> t, embedding |-> e, content |-> c,
       need |-> NumberFacet(8), tags |-> g] :
          m \in Modality, t \in { -1000, 0, 1000 },
          e \in { <<>>, <<1, 0>> }, c \in { ContentSix },
          g \in { <<>>, <<"thought", "ego">> } }

JsonlPalettes == { {k, l} : k \in JsonlTemplates, l \in JsonlTemplates }

InitJsonl ==
    /\ EngineIdle
    /\ palette \in JsonlPalettes
    /\ pc = "store"
    /\ HandlerIdle
    /\ ReflectIdle
    /\ ServerIdle
    /\ CallIdle

PushJsonlMemory(k) ==
    /\ pc = "store"
    /\ Len(store) < MaxJsonlLen
    /\ store' = Append(store, k @@ [id |-> Len(store) + 1])
    /\ UNCHANGED <<engineVars, palette, pc, experiences, responses,
                   reflectVars, serverVars, callVars>>

\* save_to_jsonl: the file is truncated and a line written per memory.
SaveToJsonl ==
    /\ pc = "store"
    /\ stm_file' = save_to_jsonl(store)
    /\ pc' = "saved"
    /\ UNCHANGED <<engineVars, palette, handlerVars, reflectVars, serverVars,
                   cosine, loaded, listed>>

\* load_from_jsonl on an empty store.
LoadFromJsonl ==
    /\ pc = "saved"
    /\ loaded' = load_from_jsonl(<<>>, stm_file)
    /\ pc' = "loaded"
    /\ UNCHANGED <<engineVars, palette, handlerVars, reflectVars, serverVars,
                   cosine, stm_file, listed>>

NextJsonl ==
    \/ \E k \in palette : PushJsonlMemory(k)
    \/ SaveToJsonl
    \/ LoadFromJsonl

SpecJsonl == InitJsonl /\ [][NextJsonl]_vars

ClaimIds(mems) == { mems[i].id : i \in 1..Len(mems) }
ClaimSameMemory(m, n) ==
    /\ m.id = n.id
    /\ m.timestamp \div 1000 = n.timestamp \div 1000
    /\ m.modality = n.modality
    /\ m.content = n.content
    /\ m.tags = n.tags
    /\ m.embedding = n.embedding

\* C24: a store saved with save_to_jsonl and loaded into an empty store
\* comes back with the same ids, and every memory with the same id,
\* timestamp to the second, modality, content, tags and embedding.
C24_JsonlRoundTrip ==
    pc = "loaded" =>
        /\ ClaimIds(loaded) = ClaimIds(store)
        /\ \A i \in 1..Len(store) :
              \E j \in 1..Len(loaded) : ClaimSameMemory(store[i], loaded[j])

(***************************************************************************)
(* Claims about get_ltm_experiences (checked under SpecHandler).           *)
(***************************************************************************)
ClaimListedLen ==
    IF listed.limit.some /\ listed.limit.v < Len(experiences)
    THEN listed.limit.v
    ELSE Len(experiences)

\* C30: get_ltm_experiences with limit n answers the n experiences created
\* last (all of them when there are fewer), the latest created first.
C30_ListsMostRecent ==
    pc = "Listed" =>
        /\ Len(listed.data) = ClaimListedLen
        /\ \A i, j \in 1..Len(listed.data) :
              i < j => listed.data[i].created_at >= listed.data[j].created_at
        /\ \A i \in 1..Len(listed.data) :
              \E k \in 1..Len(experiences) : experiences[k] = listed.data[i]
        /\ \A k \in 1..Len(experiences) :
              (\A i \in 1..Len(listed.data) : listed.data[i] # experiences[k])
                  => \A i \in 1..Len(listed.data) :
                        listed.data[i].created_at >= experiences[k].created_at

(***************************************************************************)
(* Specification of the service (main.rs, handlers.rs): the handlers run   *)
(* as concurrent tasks on one Arc<RwLock<MemoryStore>>, next to the        *)
(* periodic save task.  A step of a task is the code between two points    *)
(* where another task can get ahead of it: an .await of the lock or of the *)
(* backend, the start and the end of the write of a file.  A run has one   *)
(* crew of tasks; each request task serves one request.                    *)
(***************************************************************************)
ReflectTasks == { "reflect" }
ConsolidateTasks == { "consolidate", "consolidate2" }
ReflectCrew == { "reflect", "clear", "save", "query" }
ConsolidateCrew == { "consolidate", "consolidate2", "clear_ltm" }
Crews == { ReflectCrew, ConsolidateCrew }

IdleTask ==
    [pc |-> "Idle", req |-> NoRequest, mems |-> <<>>, cursor |-> 0,
     thought |-> <<>>, reply |-> "none", saved |-> "none", wrote |-> FALSE,
     late |-> FALSE]

\* The store loaded at the start of the service: empty, one group of two
\* related memories, or two groups two hours apart.
ServerMemory(id, ts) ==
    Memory(id, "Text", ts, <<>>, ContentSix, NumberFacet(8))
ServerStores ==
    { <<>>,
      <<ServerMemory(1, 0), ServerMemory(2, 0)>>,
      <<ServerMemory(1, 0), ServerMemory(2, 0),
        ServerMemory(3, 7200000), ServerMemory(4, 7200000)>> }

\* What the backend answers to the last call of a reflection: a good
\* response, one with a metric that is not finite, a text that makes the
\* parser panic, a text without JSON.
ServerResponses ==
    { <<Token("{"),
        Fields("Insight", <<"I see.">>, Metrics(5, 5, 5, 5), <<>>),
        Token("}")>>,
      <<Token("{"),
        Fields("Insight", <<"I see.">>, Metrics(f32_infinity, 5, 5, 5), <<>>),
        Token("}")>>,
      <<Token("}"), Token("p"), Token("{")>>,
      <<>> }
ServerUuids == { 101 }
ServerRequests ==
    { [force |-> None, max_experiences |-> None],
      [force |-> Some(TRUE), max_experiences |-> None] }

\* The variables no task of the service touches.
offServerVars == <<engineVars, palette, pc, responses, reflectVars, callVars>>

InitServer ==
    /\ EngineIdle
    /\ palette = {}
    /\ pc = "serving"
    /\ store \in ServerStores
    /\ experiences = <<>>
    /\ responses = <<>>
    /\ ReflectIdle
    /\ CallIdle
    /\ tasks \in { [t \in crew |-> IdleTask] : crew \in Crews }
    /\ lock = [readers |-> {}, writer |-> {}]

\* tokio::sync::RwLock: read() is granted while no writer holds the lock,
\* write() while nobody holds it.
can_read == lock.writer = {}
can_write == lock.writer = {} /\ lock.readers = {}
acquire_read(t) == [lock EXCEPT !.readers = @ \cup {t}]
release_read(t) == [lock EXCEPT !.readers = @ \ {t}]
acquire_write(t) == [lock EXCEPT !.writer = {t}]
release_write(t) == [lock EXCEPT !.writer = {}]

Run(t, task) == tasks' = [tasks EXCEPT ![t] = task]
At(t, where) == t \in DOMAIN tasks /\ tasks[t].pc = where
Outcome(ok) == IF ok THEN "ok" ELSE "failed"

\* A clear request has returned success.
ClearReturned ==
    \E c \in DOMAIN tasks : c = "clear" /\ tasks[c].reply = "success"

(***************************************************************************)
(* handlers.rs: reflect.                                                   *)
(***************************************************************************)
ReflectArrive(t) ==
    /\ At(t, "Idle")
    /\ Run(t, [tasks[t] EXCEPT !.pc = "Arrived", !.late = ClearReturned])
    /\ UNCHANGED <<offServerVars, store, experiences, lock>>

\* let store = memory_store.read().await;
ReflectRead(t) ==
    /\ At(t, "Arrived")
    /\ can_read
    /\ lock' = acquire_read(t)
    /\ Run(t, [tasks[t] EXCEPT !.pc = "Reading"])
    /\ UNCHANGED <<offServerVars, store, experiences>>

\* The copy that keeps the read lock.
ReflectCopyHolding(t) ==
    /\ At(t, "Reading")
    /\ Run(t, [tasks[t] EXCEPT
                  !.pc = "Calling",
                  !.mems = memories_to_use(store,
                               select_relevant_memories(store, NoFocus, 5))])
    /\ UNCHANGED <<offServerVars, store, experiences, lock>>

\* The memories are cloned and the read lock released at the end of the
\* block; the relevant ones are selected (the request brings no memory and
\* no focus).
ReflectCopy(t) ==
    /\ At(t, "Reading")
    /\ lock' = release_read(t)
    /\ Run(t, [tasks[t] EXCEPT
                  !.pc = "Calling",
                  !.mems = memories_to_use(store,
                               select_relevant_memories(store, NoFocus, 5))])
    /\ UNCHANGED <<offServerVars, store, experiences>>

\* A call of map_memories_to_notes (one per memory) or the call of
\* reduce_notes_to_context returns: Ok, or an error or timeout.
ReflectCall(t, ok) ==
    /\ At(t, "Calling")
    /\ Run(t, IF ~ok THEN [tasks[t] EXCEPT !.pc = "Fallback"]
              ELSE IF tasks[t].cursor = Len(tasks[t].mems)
                   THEN [tasks[t] EXCEPT !.pc = "Generating"]
                   ELSE [tasks[t] EXCEPT !.cursor = @ + 1])
    /\ UNCHANGED <<offServerVars, store, experiences, lock>>

\* The call of generate_reflection returns and its text is parsed.
ReflectGenerate(t, ok, response, id, now) ==
    /\ At(t, "Generating")
    /\ LET parsed == parse_reflection_response(response)
       IN  Run(t, IF ~ok \/ parsed.kind = "err"
                  THEN [tasks[t] EXCEPT !.pc = "Fallback"]
                  ELSE IF parsed.kind = "panic"
                       THEN [tasks[t] EXCEPT !.pc = "Aborted"]
                       ELSE [tasks[t] EXCEPT
                               !.pc = "Store",
                               !.thought =
                                  <<generate_reflection(parsed.v, id, now)>>])
    /\ UNCHANGED <<offServerVars, store, experiences, lock>>

\* Err(e) => generate_fallback_thought(memories_to_use, user_query)
ReflectFallbackThought(t, id, now) ==
    /\ At(t, "Fallback")
    /\ Run(t, [tasks[t] EXCEPT
                  !.pc = "Store",
                  !.thought =
                     <<generate_fallback_thought(tasks[t].mems, None,
                                                 id, now)>>])
    /\ UNCHANGED <<offServerVars, store, experiences, lock>>

\* let mut store = memory_store.write().await; store.add_memory(memory);
\* then save_all_memories starts to write the memory file.
ReflectWrite(t, now) ==
    /\ At(t, "Store")
    /\ can_write
    /\ lock' = acquire_write(t)
    /\ store' = add_memory(store, thought_to_memory(tasks[t].thought[1], now))
    /\ Run(t, [tasks[t] EXCEPT !.pc = "Saving", !.wrote = TRUE])
    /\ UNCHANGED <<offServerVars, experiences>>

\* A handler that takes the thought out of the store again when the write
\* of the file failed.
ReflectSavedOrUndone(t, ok) ==
    /\ At(t, "Saving")
    /\ t \in ReflectTasks
    /\ lock' = release_write(t)
    /\ store' = IF ok THEN store
                ELSE SelectSeq(store,
                         LAMBDA m : m.id # tasks[t].thought[1].id)
    /\ Run(t, [tasks[t] EXCEPT !.pc = "Replied", !.saved = Outcome(ok),
                               !.reply = "success"])
    /\ UNCHANGED <<offServerVars, experiences>>

\* save_all_memories returns, Ok or Err (logged); the thought is answered in
\* a success envelope and the write lock dropped.
ReflectSaved(t, ok) ==
    /\ At(t, "Saving")
    /\ t \in ReflectTasks
    /\ lock' = release_write(t)
    /\ Run(t, [tasks[t] EXCEPT !.pc = "Replied", !.saved = Outcome(ok),
                               !.reply = "success"])
    /\ UNCHANGED <<offServerVars, store, experiences>>

(***************************************************************************)
(* handlers.rs: consolidate_stm_to_ltm.                                    *)
(***************************************************************************)
\* consolidate_thoughts: the number of experiences of its result.
consolidate_thoughts(req, mems) ==
    IF gate_skips(req, mems) THEN 0
    ELSE LET found == group_related_thoughts(mems)
         IN  Cardinality({ g \in 1..Len(found) :
                             /\ g <= unwrap_or(req.max_experiences, 5)
                             /\ Len(found[g]) >= 2 })

\* groups.iter().take(result.experiences_created): the loop has a group at n.
take_has(task, n) ==
    /\ n <= Len(group_related_thoughts(task.mems))
    /\ n <= consolidate_thoughts(task.req, task.mems)

\* let store = memory_store.read().await;
ConsolidateRead(t, req) ==
    /\ At(t, "Idle")
    /\ t \in ConsolidateTasks
    /\ can_read
    /\ lock' = acquire_read(t)
    /\ Run(t, [tasks[t] EXCEPT !.pc = "Reading", !.req = req])
    /\ UNCHANGED <<offServerVars, store, experiences>>

\* The memories are cloned and the read lock released; an empty copy is
\* answered with the zero result.
ConsolidateCopy(t) ==
    /\ At(t, "Reading")
    /\ t \in ConsolidateTasks
    /\ lock' = release_read(t)
    /\ Run(t, IF store = <<>>
              THEN [tasks[t] EXCEPT !.pc = "Replied", !.reply = "success"]
              ELSE [tasks[t] EXCEPT !.pc = "Consolidating", !.mems = store])
    /\ UNCHANGED <<offServerVars, store, experiences>>

\* consolidate_thoughts returns (its backend calls have ended): without an
\* experience the result is answered, else the loop starts.
ConsolidateThoughts(t) ==
    /\ At(t, "Consolidating")
    /\ Run(t, IF take_has(tasks[t], 1)
              THEN [tasks[t] EXCEPT !.pc = "Creating", !.cursor = 1]
              ELSE [tasks[t] EXCEPT !.pc = "Replied", !.reply = "success"])
    /\ UNCHANGED <<offServerVars, store, experiences, lock>>

\* create_experience_from_thoughts returns for the group at the cursor (its
\* backend calls have ended, a failed one replaced by the local heuristic).
ConsolidateCreate(t) ==
    /\ At(t, "Creating")
    /\ Run(t, [tasks[t] EXCEPT !.pc = "Adding"])
    /\ UNCHANGED <<offServerVars, store, experiences, lock>>

\* let mut store = memory_store.write().await; store.add_experience(..)
ConsolidateWrite(t, themes, now) ==
    /\ At(t, "Adding")
    /\ can_write
    /\ lock' = acquire_write(t)
    /\ experiences' =
          add_experience(experiences,
              create_experience_from_thoughts(
                  group_related_thoughts(tasks[t].mems)[tasks[t].cursor],
                  <<t, tasks[t].cursor>>, now, themes))
    /\ Run(t, [tasks[t] EXCEPT !.pc = "Added", !.wrote = TRUE])
    /\ UNCHANGED <<offServerVars, store>>

\* The write guard is dropped at the end of the match arm; the loop goes on
\* with the next group or ends.
ConsolidateRelease(t) ==
    /\ At(t, "Added")
    /\ lock' = release_write(t)
    /\ Run(t, [tasks[t] EXCEPT
                  !.cursor = @ + 1,
                  !.pc = IF take_has(tasks[t], tasks[t].cursor + 1)
                         THEN "Creating" ELSE "SaveLtm"])
    /\ UNCHANGED <<offServerVars, store, experiences>>

\* let store = memory_store.read().await; save_ltm_to_jsonl starts to write
\* the experience file.
ConsolidateSave(t) ==
    /\ At(t, "SaveLtm")
    /\ can_read
    /\ lock' = acquire_read(t)
    /\ Run(t, [tasks[t] EXCEPT !.pc = "Saving"])
    /\ UNCHANGED <<offServerVars, store, experiences>>

\* save_ltm_to_jsonl returns, Ok or Err (logged); the result is answered.
ConsolidateSaved(t, ok) ==
    /\ At(t, "Saving")
    /\ t \in ConsolidateTasks
    /\ lock' = release_read(t)
    /\ Run(t, [tasks[t] EXCEPT !.pc = "Replied", !.saved = Outcome(ok),
                               !.reply = "success"])
    /\ UNCHANGED <<offServerVars, store, experiences>>

(***************************************************************************)
(* handlers.rs: clear_data and clear_ltm_data; main.rs: the periodic save  *)
(* task; handlers.rs: get_memories.                                        *)
(***************************************************************************)
\* let mut store = memory_store.write().await; store.clear_all_memories();
\* then save_all_memories starts to write the memory file.
ClearWrite ==
    /\ At("clear", "Idle")
    /\ can_write
    /\ lock' = acquire_write("clear")
    /\ store' = <<>>
    /\ Run("clear", [tasks["clear"] EXCEPT !.pc = "Saving", !.wrote = TRUE])
    /\ UNCHANGED <<offServerVars, experiences>>

\* save_all_memories returns: Err is answered with an error envelope.
ClearSaved(ok) ==
    /\ At("clear", "Saving")
    /\ lock' = release_write("clear")
    /\ Run("clear", [tasks["clear"] EXCEPT
                        !.pc = "Replied", !.saved = Outcome(ok),
                        !.reply = IF ok THEN "success" ELSE "error"])
    /\ UNCHANGED <<offServerVars, store, experiences>>

\* store.clear_all_experiences(); then save_ltm_to_jsonl starts.
ClearLtmWrite ==
    /\ At("clear_ltm", "Idle")
    /\ can_write
    /\ lock' = acquire_write("clear_ltm")
    /\ experiences' = <<>>
    /\ Run("clear_ltm",
           [tasks["clear_ltm"] EXCEPT !.pc = "Saving", !.wrote = TRUE])
    /\ UNCHANGED <<offServerVars, store>>

ClearLtmSaved(ok) ==
    /\ At("clear_ltm", "Saving")
    /\ lock' = release_write("clear_ltm")
    /\ Run("clear_ltm", [tasks["clear_ltm"] EXCEPT
                            !.pc = "Replied", !.saved = Outcome(ok),
                            !.reply = IF ok THEN "success" ELSE "error"])
    /\ UNCHANGED <<offServerVars, store, experiences>>

\* interval.tick().await; memory_store_save.read().await.save_all_memories()
PeriodicSave ==
    /\ At("save", "Idle")
    /\ can_read
    /\ lock' = acquire_read("save")
    /\ Run("save", [tasks["save"] EXCEPT !.pc = "Saving"])
    /\ UNCHANGED <<offServerVars, store, experiences>>

\* The write ends (an error is logged) and the task waits for the next tick.
PeriodicSaved(ok) ==
    /\ At("save", "Saving")
    /\ lock' = release_read("save")
    /\ Run("save", [tasks["save"] EXCEPT !.pc = "Idle"])
    /\ UNCHANGED <<offServerVars, store, experiences>>

\* get_memories: let store = memory_store.read().await;
QueryRead ==
    /\ At("query", "Idle")
    /\ can_read
    /\ lock' = acquire_read("query")
    /\ Run("query", [tasks["query"] EXCEPT !.pc = "Reading"])
    /\ UNCHANGED <<offServerVars, store, experiences>>

\* The memories are answered and the read guard dropped.
QueryReply ==
    /\ At("query", "Reading")
    /\ lock' = release_read("query")
    /\ Run("query", [tasks["query"] EXCEPT !.pc = "Replied",
                                           !.reply = "success"])
    /\ UNCHANGED <<offServerVars, store, experiences>>

ReflectSteps(t) ==
    \/ ReflectArrive(t)
    \/ ReflectRead(t)
    \/ ReflectCopy(t)
    \/ \E ok \in BOOLEAN : ReflectCall(t, ok)
    \/ \E ok \in BOOLEAN, response \in ServerResponses, id \in ServerUuids,
          now \in ClockChoices : ReflectGenerate(t, ok, response, id, now)
    \/ \E id \in ServerUuids, now \in ClockChoices :
           ReflectFallbackThought(t, id, now)
    \/ \E now \in ClockChoices : ReflectWrite(t, now)
    \/ \E ok \in BOOLEAN : ReflectSaved(t, ok)

ConsolidateSteps(t) ==
    \/ \E req \in ServerRequests : ConsolidateRead(t, req)
    \/ ConsolidateCopy(t)
    \/ ConsolidateThoughts(t)
    \/ ConsolidateCreate(t)
    \/ \E themes \in HandlerThemes, now \in ClockChoices :
           ConsolidateWrite(t, themes, now)
    \/ ConsolidateRelease(t)
    \/ ConsolidateSave(t)
    \/ \E ok \in BOOLEAN : ConsolidateSaved(t, ok)

NextServer ==
    \/ \E t \in ReflectTasks : ReflectSteps(t)
    \/ \E t \in ConsolidateTasks : ConsolidateSteps(t)
    \/ ClearWrite
    \/ \E ok \in BOOLEAN : ClearSaved(ok)
    \/ ClearLtmWrite
    \/ \E ok \in BOOLEAN : ClearLtmSaved(ok)
    \/ PeriodicSave
    \/ \E ok \in BOOLEAN : PeriodicSaved(ok)
    \/ QueryRead
    \/ QueryReply

SpecServer == InitServer /\ [][NextServer]_vars

(***************************************************************************)
(* Claims about the service.                                               *)
(***************************************************************************)
\* A call of the backend made by the task is in flight.
ClaimInBackend(t) ==
    tasks[t].pc \in {"Calling", "Generating", "Consolidating", "Creating"}
ClaimHolds(t) == t \in lock.readers \cup lock.writer

\* C21, as stated: a task with a backend call in flight holds the lock
\* neither for reading nor for writing, and it has not taken the write lock
\* before its last backend call returned.
C21_NoLockAcrossBackendNorBefore ==
    \A t \in DOMAIN tasks :
        ClaimInBackend(t) => ~ClaimHolds(t) /\ ~tasks[t].wrote

\* C21, amended: a task with a backend call in flight holds the lock
\* neither for reading nor for writing; reflect takes the write lock only
\* after its last backend call, consolidate takes and drops it once per
\* experience, between the backend calls of two groups.
C21_NoLockAcrossBackend ==
    \A t \in DOMAIN tasks :
        ClaimInBackend(t) =>
            /\ ~ClaimHolds(t)
            /\ t \in ReflectTasks => ~tasks[t].wrote

\* A consolidation that has added its first experience waits for the
\* backend calls of its second group while clear_ltm holds the write lock.
C21_Witness ==
    /\ "consolidate" \in DOMAIN tasks
    /\ tasks["consolidate"].pc = "Creating"
    /\ tasks["consolidate"].wrote
    /\ tasks["consolidate"].cursor = 2
    /\ lock.writer = {"clear_ltm"}

\* C22: a request that changed the store and whose write of the file
\* failed has still answered success.
C22_FailedWriteStillSuccess ==
    \A t \in DOMAIN tasks :
        tasks[t].saved = "failed" => tasks[t].reply = "success"

ClaimStoreHas(id) == \E i \in 1..Len(store) : store[i].id = id

\* C23: a failed write of the file rolls nothing back.  While a request
\* writes the file its change of the store is in place (the store is empty
\* for clear, the experiences for clear-ltm, the thought is stored for
\* reflect), and the step that ends the write, failed or not, leaves the
\* memories and the experiences as they are.
C23_NoRollback ==
    /\ [](\A t \in DOMAIN tasks :
             tasks[t].pc = "Saving" =>
                 /\ t = "clear" => store = <<>>
                 /\ t = "clear_ltm" => experiences = <<>>
                 /\ t \in ReflectTasks =>
                        ClaimStoreHas(tasks[t].thought[1].id))
    /\ [][\A t \in DOMAIN tasks :
             tasks[t].pc = "Saving" /\ tasks'[t].pc # "Saving" =>
                 store' = store /\ experiences' = experiences]_vars

\* A reflect request has answered after a failed write and its thought is
\* in the store, next to the two memories the store had.
C23_Witness ==
    /\ "reflect" \in DOMAIN tasks
    /\ tasks["reflect"].pc = "Replied"
    /\ tasks["reflect"].saved = "failed"
    /\ Len(store) = 3
    /\ ClaimStoreHas(tasks["reflect"].thought[1].id)

(***************************************************************************)
(* Specification of a reflect request served next to clear, the periodic   *)
(* save task and a query, with the scheduling the runtime gives: every     *)
(* backend call ends (reqwest's 120 s timeout, reflection.rs:16-19), every *)
(* write of a file ends, a task that can run does run, and the lock is     *)
(* granted to a task that keeps asking for it (tokio's RwLock is fair).    *)
(***************************************************************************)
\* The service with the reflect crew alone, started on the empty store or on
\* the store of two memories.
InitReflectService ==
    /\ InitServer
    /\ DOMAIN tasks = ReflectCrew
    /\ Len(store) <= 2

NextReflectService ==
    \/ \E t \in ReflectTasks : ReflectSteps(t)
    \/ ClearWrite
    \/ \E ok \in BOOLEAN : ClearSaved(ok)
    \/ PeriodicSave
    \/ \E ok \in BOOLEAN : PeriodicSaved(ok)
    \/ QueryRead
    \/ QueryReply

FairReflectService ==
    /\ \A t \in ReflectTasks :
          /\ SF_vars(ReflectRead(t))
          /\ WF_vars(ReflectCopy(t))
          /\ WF_vars(\E ok \in BOOLEAN : ReflectCall(t, ok))
          /\ WF_vars(\E ok \in BOOLEAN, response \in ServerResponses,
                        id \in ServerUuids, now \in ClockChoices :
                         ReflectGenerate(t, ok, response, id, now))
          /\ WF_vars(\E id \in ServerUuids, now \in ClockChoices :
                         ReflectFallbackThought(t, id, now))
          /\ SF_vars(\E now \in ClockChoices : ReflectWrite(t, now))
          /\ WF_vars(\E ok \in BOOLEAN : ReflectSaved(t, ok))
    /\ WF_vars(\E ok \in BOOLEAN : ClearSaved(ok))
    /\ WF_vars(\E ok \in BOOLEAN : PeriodicSaved(ok))
    /\ WF_vars(QueryReply)

SpecServerLive ==
    InitReflectService /\ [][NextReflectService]_vars /\ FairReflectService

\* C25: every reflect request that has arrived is answered in the end, and
\* a request one of whose backend calls failed or timed out is answered
\* with the fallback thought.
C25_ReflectCompletes ==
    /\ tasks["reflect"].pc = "Arrived" ~> tasks["reflect"].reply = "success"
    /\ tasks["reflect"].pc = "Fallback" ~>
          /\ tasks["reflect"].reply = "success"
          /\ tasks["reflect"].thought[1].model = "fallback"

(***************************************************************************)
(* The thought of a reflect request and the memory stored for it.          *)
(***************************************************************************)
\* The memory of the store that carries the thought: same id, modality
\* Text, the text of the thought, its four metrics and its context hash.
ClaimCarries(mems, thought) ==
    \E i \in 1..Len(mems) :
        /\ mems[i].id = thought.id
        /\ mems[i].modality = "Text"
        /\ mems[i].content = thought.thought
        /\ mems[i].self_awareness = thought.metrics.self_awareness
        /\ mems[i].need =
              NumberFacet(thought.metrics.memory_consolidation_need)
        /\ mems[i].emotional_stability = thought.metrics.emotional_stability
        /\ mems[i].creative_insight = thought.metrics.creative_insight
        /\ mems[i].context_hash = thought.context_hash

ClaimOthers(mems, id) == SelectSeq(mems, LAMBDA m : m.id # id)

\* C26: when a reflect request answers, the store holds a Text memory with
\* the id, the text, the four metrics and the context hash of the returned
\* thought, and no step of the request adds, removes or changes a memory
\* with another id.
C26_ThoughtStored ==
    [][\A t \in ReflectTasks \cap DOMAIN tasks :
          /\ tasks[t].pc # "Replied" /\ tasks'[t].pc = "Replied" =>
                ClaimCarries(store', tasks'[t].thought[1])
          /\ tasks'[t] # tasks[t] =>
                IF tasks'[t].thought = <<>> THEN store' = store
                ELSE ClaimOthers(store', tasks'[t].thought[1].id)
                        = ClaimOthers(store, tasks'[t].thought[1].id)]_vars

(***************************************************************************)
(* The writers of the two persistence files.  save_all_memories writes the *)
(* memory file (reflect, clear_data, the periodic task); save_ltm_to_jsonl *)
(* writes the experience file (consolidate_stm_to_ltm, clear_ltm_data).    *)
(***************************************************************************)
ClaimWriters(crew) ==
    { t \in DOMAIN tasks \cap crew : tasks[t].pc = "Saving" }

ClaimMemoryFileWriters == ClaimWriters(ReflectTasks \cup {"clear", "save"})
ClaimExperienceFileWriters == ClaimWriters(ConsolidateTasks \cup {"clear_ltm"})

\* C28: at any time at most one task is writing the memory file and at most
\* one task is writing the experience file.
C28_OneWriterPerFile ==
    /\ Cardinality(ClaimMemoryFileWriters) <= 1
    /\ Cardinality(ClaimExperienceFileWriters) <= 1

\* A memory of the store was added by a request that arrived after the clear
\* request had returned.
ClaimAddedLate(m) ==
    \E t \in ReflectTasks \cap DOMAIN tasks :
        /\ tasks[t].late
        /\ tasks[t].wrote
        /\ tasks[t].thought[1].id = m.id

\* C29: once a clear request has returned success, every memory of the
\* store was added by a request that started after the clear returned.
C29_ClearedStaysCleared ==
    ClearReturned =>
        \A i \in 1..Len(store) : ClaimAddedLate(store[i])

====
